---- MODULE Spec2Model ----
(***************************************************************************)
(* A model of the DevContainer configuration engine: the template catalog  *)
(* and its scored selection (TemplateManager), prompt analysis, and the    *)
(* build / modify merge rules (ConfigGenerator).                           *)
(*                                                                         *)
(* Strings are TLA+ strings; TLC evaluates Len, SubSeq and \o on them, so  *)
(* the character-level work of the code (lower-casing, regular-expression  *)
(* matching, title-casing) is modelled on the characters themselves.       *)
(***************************************************************************)
EXTENDS Integers, Sequences, FiniteSets, TLC

VARIABLES
  templates,  \* TemplateManager.templates: the catalog, a list of descriptors
  pending,    \* the calls a client still has to make, in order
  done,       \* the calls made so far, each with what it returned
  disk,       \* the file <workspaceRoot>/.devcontainer/devcontainer.json
  inflight    \* the asynchronous calls that have begun and not yet settled

vars == <<templates, pending, done, disk, inflight>>

(***************************************************************************)
(* Bounds of the model.                                                    *)
(***************************************************************************)
\* longest languages / frameworks list handed to findBestMatch
MaxTags == 2

\* most pieces (words, numbers, separators) a text handed to analyzePrompt
\* is put together from
MaxPieces == 3

\* most phrases in a prompt of a single build or modify call
MaxPhrases == 2

\* most phrases in each prompt of two builds in a row
MaxPairPhrases == 1

\* most calls a client makes on the workspace in one run
MaxCalls == 2

\* most calls of analyzePrompt in a row
MaxAnalyses == 3

\* most calls a client makes one after the other on the workspace
MaxAwaitedCalls == 3

\* most commands a caller runs side by side
MaxCommands == 1

\* most pieces of output a child process writes
MaxChunks == 1

\* most calls of the container manager in one run
MaxManagerCalls == 1

\* most custom commands given to testContainer
MaxCustomCommands == 2

\* most requests a client sends to the server in one run
MaxRequests == 2

(***************************************************************************)
(* Characters and strings.                                                 *)
(***************************************************************************)
LowerLetters ==
  {"a", "b", "c", "d", "e", "f", "g", "h", "i", "j", "k", "l", "m",
   "n", "o", "p", "q", "r", "s", "t", "u", "v", "w", "x", "y", "z"}

UpperLetters ==
  {"A", "B", "C", "D", "E", "F", "G", "H", "I", "J", "K", "L", "M",
   "N", "O", "P", "Q", "R", "S", "T", "U", "V", "W", "X", "Y", "Z"}

Digits == {"0", "1", "2", "3", "4", "5", "6", "7", "8", "9"}

LowerOf ==
  [A |-> "a", B |-> "b", C |-> "c", D |-> "d", E |-> "e", F |-> "f", G |-> "g",
   H |-> "h", I |-> "i", J |-> "j", K |-> "k", L |-> "l", M |-> "m", N |-> "n",
   O |-> "o", P |-> "p", Q |-> "q", R |-> "r", S |-> "s", T |-> "t", U |-> "u",
   V |-> "v", W |-> "w", X |-> "x", Y |-> "y", Z |-> "z"]

UpperOf ==
  [a |-> "A", b |-> "B", c |-> "C", d |-> "D", e |-> "E", f |-> "F", g |-> "G",
   h |-> "H", i |-> "I", j |-> "J", k |-> "K", l |-> "L", m |-> "M", n |-> "N",
   o |-> "O", p |-> "P", q |-> "Q", r |-> "R", s |-> "S", t |-> "T", u |-> "U",
   v |-> "V", w |-> "W", x |-> "X", y |-> "Y", z |-> "Z"]

\* s.charAt(i), 1-based
CharAt(s, i) == SubSeq(s, i, i)

\* one character of String.prototype.toLowerCase
LowerChar(c) == IF c \in UpperLetters THEN LowerOf[c] ELSE c

\* one character of String.prototype.toUpperCase
UpperChar(c) == IF c \in LowerLetters THEN UpperOf[c] ELSE c

RECURSIVE toLowerCase(_)
toLowerCase(s) ==
  IF Len(s) = 0 THEN ""
  ELSE LowerChar(CharAt(s, 1)) \o toLowerCase(SubSeq(s, 2, Len(s)))

\* Array.prototype.includes
Includes(list, x) == \E i \in 1..Len(list) : list[i] = x

\* the elements of a list, as a set
Elems(list) == {list[i] : i \in 1..Len(list)}

\* whether no element occurs twice in a list
NoDuplicates(list) ==
  \A i, j \in 1..Len(list) : list[i] = list[j] => i = j

\* all lists over S of length at most n
SeqsUpTo(S, n) == UNION {[1..k -> S] : k \in 0..n}

\* the JavaScript object {}
EmptyObject == [k \in {} |-> TRUE]

\* a JavaScript null result
Null == [null |-> TRUE]

\* an optional argument: left out, or given with a value
NotGiven == [given |-> FALSE]

Given(value) == [given |-> TRUE, value |-> value]

\* the configuration file: not there, holding the JSON text of a document,
\* or holding a text that is not JSON
NoFile == [kind |-> "absent"]

JsonFile(doc) == [kind |-> "json", value |-> doc]

MalformedFile == [kind |-> "malformed"]

\* no asynchronous call in flight
NoCalls == [id \in {} |-> TRUE]

(***************************************************************************)
(* The template catalog: src/src/template-manager.ts, lines 23-341.        *)
(***************************************************************************)
Tpl_nodejs_typescript ==
  [name |-> "nodejs-typescript",
   description |-> "Node.js development with TypeScript support",
   languages |-> <<"javascript", "typescript">>,
   frameworks |-> <<"node", "express">>,
   features |-> <<"Node.js", "TypeScript", "ESLint", "Prettier">>,
   category |-> "backend",
   config |-> [name |-> "Node.js & TypeScript Development",
     image |-> "mcr.microsoft.com/devcontainers/typescript-node:18",
     features |-> (("ghcr.io/devcontainers/features/node:1" :> [version |-> "18"])),
     customizations |-> [vscode |-> [extensions |-> <<"ms-vscode.vscode-typescript-next",
            "ms-vscode.vscode-eslint",
            "esbenp.prettier-vscode",
            "ms-vscode.vscode-json">>]],
     forwardPorts |-> <<3000>>,
     postCreateCommand |-> "npm install",
     remoteUser |-> "node"]]

Tpl_python ==
  [name |-> "python",
   description |-> "Python development with common packages and debugging",
   languages |-> <<"python">>,
   frameworks |-> <<"django", "flask", "fastapi">>,
   features |-> <<"Python", "pip", "pytest", "Black">>,
   category |-> "backend",
   config |-> [name |-> "Python Development",
     image |-> "mcr.microsoft.com/devcontainers/python:3.11",
     features |-> (("ghcr.io/devcontainers/features/python:1" :> [version |-> "3.11"])),
     customizations |-> [vscode |-> [extensions |-> <<"ms-python.python",
            "ms-python.pylint",
            "ms-python.black-formatter",
            "ms-python.isort">>]],
     forwardPorts |-> <<8000>>,
     postCreateCommand |-> "pip install -r requirements.txt",
     remoteUser |-> "vscode"]]

Tpl_go ==
  [name |-> "go",
   description |-> "Go development with standard tooling",
   languages |-> <<"go">>,
   frameworks |-> <<"gin", "fiber", "echo">>,
   features |-> <<"Go", "go mod", "gofmt", "gopls">>,
   category |-> "backend",
   config |-> [name |-> "Go Development",
     image |-> "mcr.microsoft.com/devcontainers/go:1.21",
     features |-> (("ghcr.io/devcontainers/features/go:1" :> [version |-> "1.21"])),
     customizations |-> [vscode |-> [extensions |-> <<"golang.go", "ms-vscode.vscode-json">>]],
     forwardPorts |-> <<8080>>,
     postCreateCommand |-> "go mod download",
     remoteUser |-> "vscode"]]

Tpl_rust ==
  [name |-> "rust",
   description |-> "Rust environment with Cargo and debugging",
   languages |-> <<"rust">>,
   frameworks |-> <<"actix", "rocket", "warp">>,
   features |-> <<"Rust", "Cargo", "rustfmt", "clippy">>,
   category |-> "backend",
   config |-> [name |-> "Rust Development",
     image |-> "mcr.microsoft.com/devcontainers/rust:1",
     features |-> (("ghcr.io/devcontainers/features/rust:1" :> [version |-> "latest"])),
     customizations |-> [vscode |-> [extensions |-> <<"rust-lang.rust-analyzer", "vadimcn.vscode-lldb">>]],
     forwardPorts |-> <<8000>>,
     postCreateCommand |-> "cargo build",
     remoteUser |-> "vscode"]]

Tpl_java ==
  [name |-> "java",
   description |-> "Java with Maven/Gradle support",
   languages |-> <<"java">>,
   frameworks |-> <<"spring", "springboot", "maven", "gradle">>,
   features |-> <<"Java", "Maven", "Gradle", "JUnit">>,
   category |-> "backend",
   config |-> [name |-> "Java Development",
     image |-> "mcr.microsoft.com/devcontainers/java:17",
     features |-> (("ghcr.io/devcontainers/features/java:1" :> [version |-> "17", installMaven |-> TRUE, installGradle |-> TRUE])),
     customizations |-> [vscode |-> [extensions |-> <<"vscjava.vscode-java-pack", "vmware.vscode-spring-boot">>]],
     forwardPorts |-> <<8080>>,
     postCreateCommand |-> "mvn dependency:resolve",
     remoteUser |-> "vscode"]]

Tpl_php ==
  [name |-> "php",
   description |-> "PHP with Composer and debugging",
   languages |-> <<"php">>,
   frameworks |-> <<"laravel", "symfony", "codeigniter">>,
   features |-> <<"PHP", "Composer", "Xdebug">>,
   category |-> "backend",
   config |-> [name |-> "PHP Development",
     image |-> "mcr.microsoft.com/devcontainers/php:8.2",
     features |-> (("ghcr.io/devcontainers/features/php:1" :> [version |-> "8.2"])),
     customizations |-> [vscode |-> [extensions |-> <<"bmewburn.vscode-intelephense-client", "xdebug.php-debug">>]],
     forwardPorts |-> <<8000>>,
     postCreateCommand |-> "composer install",
     remoteUser |-> "vscode"]]

Tpl_ruby ==
  [name |-> "ruby",
   description |-> "Ruby with Rails support",
   languages |-> <<"ruby">>,
   frameworks |-> <<"rails", "sinatra">>,
   features |-> <<"Ruby", "Rails", "Bundler", "RSpec">>,
   category |-> "backend",
   config |-> [name |-> "Ruby Development",
     image |-> "mcr.microsoft.com/devcontainers/ruby:3.2",
     features |-> (("ghcr.io/devcontainers/features/ruby:1" :> [version |-> "3.2"])),
     customizations |-> [vscode |-> [extensions |-> <<"rebornix.ruby", "wingrunr21.vscode-ruby">>]],
     forwardPorts |-> <<3000>>,
     postCreateCommand |-> "bundle install",
     remoteUser |-> "vscode"]]

Tpl_react ==
  [name |-> "react",
   description |-> "Modern React development stack",
   languages |-> <<"javascript", "typescript">>,
   frameworks |-> <<"react", "next", "vite">>,
   features |-> <<"React", "TypeScript", "Vite", "ESLint">>,
   category |-> "frontend",
   config |-> [name |-> "React Development",
     image |-> "mcr.microsoft.com/devcontainers/typescript-node:18",
     features |-> (("ghcr.io/devcontainers/features/node:1" :> [version |-> "18"])),
     customizations |-> [vscode |-> [extensions |-> <<"ms-vscode.vscode-typescript-next",
            "bradlc.vscode-tailwindcss",
            "esbenp.prettier-vscode",
            "ms-vscode.vscode-eslint",
            "ms-vscode.vscode-json">>]],
     forwardPorts |-> <<3000, 5173>>,
     postCreateCommand |-> "npm install",
     remoteUser |-> "node"]]

Tpl_mean_stack ==
  [name |-> "mean-stack",
   description |-> "MongoDB, Express, Angular, Node.js stack",
   languages |-> <<"javascript", "typescript">>,
   frameworks |-> <<"angular", "express", "mongodb">>,
   features |-> <<"Node.js", "Angular", "MongoDB", "Express">>,
   category |-> "fullstack",
   config |-> [name |-> "MEAN Stack Development",
     dockerComposeFile |-> "docker-compose.yml",
     service |-> "app",
     workspaceFolder |-> "/workspace",
     features |-> (("ghcr.io/devcontainers/features/node:1" :> [version |-> "18"])),
     customizations |-> [vscode |-> [extensions |-> <<"ms-vscode.vscode-typescript-next",
            "angular.ng-template",
            "mongodb.mongodb-vscode">>]],
     forwardPorts |-> <<4200, 3000, 27017>>,
     postCreateCommand |-> "npm install"]]

Tpl_docker_compose ==
  [name |-> "docker-compose",
   description |-> "Multi-service development with Docker Compose",
   languages |-> <<"javascript", "python", "go">>,
   frameworks |-> <<"microservices", "docker">>,
   features |-> <<"Docker", "Docker Compose", "Multi-service">>,
   category |-> "fullstack",
   config |-> [name |-> "Docker Compose Development",
     dockerComposeFile |-> "docker-compose.yml",
     service |-> "app",
     workspaceFolder |-> "/workspace",
     shutdownAction |-> "stopCompose",
     customizations |-> [vscode |-> [extensions |-> <<"ms-azuretools.vscode-docker",
            "ms-vscode-remote.remote-containers">>]],
     forwardPorts |-> <<3000, 8000, 5432>>,
     postCreateCommand |-> "echo \"Multi-service environment ready\""]]

Tpl_universal ==
  [name |-> "universal",
   description |-> "Multi-language development environment",
   languages |-> <<"javascript", "python", "go", "rust", "java">>,
   frameworks |-> <<"universal">>,
   features |-> <<"Multiple Languages", "Git", "Docker", "SSH">>,
   category |-> "universal",
   config |-> [name |-> "Universal Development Environment",
     image |-> "mcr.microsoft.com/devcontainers/universal:2",
     features |-> (("ghcr.io/devcontainers/features/docker-in-docker:2" :> EmptyObject)
         @@ ("ghcr.io/devcontainers/features/git:1" :> EmptyObject)
         @@ ("ghcr.io/devcontainers/features/github-cli:1" :> EmptyObject)),
     customizations |-> [vscode |-> [extensions |-> <<"ms-vscode.vscode-json",
            "ms-azuretools.vscode-docker",
            "github.vscode-pull-request-github">>]],
     forwardPorts |-> <<3000, 8000, 8080>>,
     postCreateCommand |-> "echo \"Universal environment ready\"",
     remoteUser |-> "codespace"]]

SeedTemplates ==
  <<Tpl_nodejs_typescript,
    Tpl_python,
    Tpl_go,
    Tpl_rust,
    Tpl_java,
    Tpl_php,
    Tpl_ruby,
    Tpl_react,
    Tpl_mean_stack,
    Tpl_docker_compose,
    Tpl_universal>>

(***************************************************************************)
(* TemplateManager.findBestMatch.                                          *)
(***************************************************************************)
\* the loop body with the fallback penalty added instead of subtracted
TemplateScoreBonus(template, languages, frameworks) ==
  LET langHits == {i \in 1..Len(languages) :
                     Includes(template.languages, toLowerCase(languages[i]))}
      fwHits == {i \in 1..Len(frameworks) :
                   Includes(template.frameworks, toLowerCase(frameworks[i]))}
      score == 10 * Cardinality(langHits) + 5 * Cardinality(fwHits)
  IN  IF template.name = "universal" THEN score + 1 ELSE score

\* the loop body with a framework match weighted like a language match
TemplateScoreEqualWeights(template, languages, frameworks) ==
  LET langHits == {i \in 1..Len(languages) :
                     Includes(template.languages, toLowerCase(languages[i]))}
      fwHits == {i \in 1..Len(frameworks) :
                   Includes(template.frameworks, toLowerCase(frameworks[i]))}
      score == 10 * Cardinality(langHits) + 10 * Cardinality(fwHits)
  IN  IF template.name = "universal" THEN score - 1 ELSE score

\* the score one template gets in the loop body, lines 380-399
TemplateScore(template, languages, frameworks) ==
  LET langHits == {i \in 1..Len(languages) :
                     Includes(template.languages, toLowerCase(languages[i]))}
      fwHits == {i \in 1..Len(frameworks) :
                   Includes(template.frameworks, toLowerCase(frameworks[i]))}
      score == 10 * Cardinality(langHits) + 5 * Cardinality(fwHits)
  IN  IF template.name = "universal" THEN score - 1 ELSE score

\* the comparison of line 401 written >=: the last of several ties wins
BetterOrEqual(score, bestScore) == score >= bestScore

\* whether the loop replaces the best match so far, line 401
Better(score, bestScore) == score > bestScore

\* the for loop of lines 379-405 from catalog position i on, carrying
\* bestMatch and bestScore
RECURSIVE BestMatchLoop(_, _, _, _, _)
BestMatchLoop(list, i, languages, frameworks, best) ==
  IF i > Len(list) THEN best
  ELSE LET score == TemplateScore(list[i], languages, frameworks)
       IN  IF Better(score, best.bestScore)
           THEN BestMatchLoop(list, i + 1, languages, frameworks,
                              [bestMatch |-> list[i], bestScore |-> score])
           ELSE BestMatchLoop(list, i + 1, languages, frameworks, best)

\* templates.find(t => t.name === name) || null
FindByName(list, name) ==
  IF \E i \in 1..Len(list) : list[i].name = name
  THEN list[CHOOSE i \in 1..Len(list) :
              /\ list[i].name = name
              /\ \A j \in 1..(i - 1) : list[j].name # name]
  ELSE Null

\* lines 408-410 left out: a zero best score returns the loop's null
FallbackMissing(list) == Null

\* the fallback of lines 408-410
Fallback(list) == FindByName(list, "universal")

findBestMatch(list, languages, frameworks) ==
  LET best == BestMatchLoop(list, 1, languages, frameworks,
                            [bestMatch |-> Null, bestScore |-> 0])
  IN  IF best.bestScore = 0 THEN Fallback(list) ELSE best.bestMatch

\* getTemplate with a miss answered by the universal template
getTemplateOrUniversal(list, name) ==
  IF FindByName(list, name) = Null THEN FindByName(list, "universal")
  ELSE FindByName(list, name)

\* TemplateManager.getTemplate
getTemplate(list, name) == FindByName(list, name)

(***************************************************************************)
(* ConfigGenerator.analyzePrompt: regular expressions.                     *)
(***************************************************************************)
\* the characters \w matches
WordChars == LowerLetters \cup UpperLetters \cup Digits \cup {"_"}

IsWordChar(c) == c \in WordChars

\* the characters \s matches, among those the model's texts use
IsSpace(c) == c \in {" ", "\t", "\n"}

IsDigit(c) == c \in Digits

\* \b before position i of s (i = Len(s) + 1: at the end of s)
WordBoundary(s, i) ==
  (i > 1 /\ IsWordChar(CharAt(s, i - 1)))
    # (i <= Len(s) /\ IsWordChar(CharAt(s, i)))

\* /\b(a1|a2|...)\b/.test(s) for literal alternatives
TestWords(s, alternatives) ==
  \E a \in alternatives :
    \E i \in 1..(Len(s) - Len(a) + 1) :
      /\ SubSeq(s, i, i + Len(a) - 1) = a
      /\ WordBoundary(s, i)
      /\ WordBoundary(s, i + Len(a))

\* the last position of the longest run of digits of s that starts at i
\* (i - 1 when there is none): what a greedy \d+ consumes
RECURSIVE DigitRunEnd(_, _)
DigitRunEnd(s, i) ==
  IF i <= Len(s) /\ IsDigit(CharAt(s, i)) THEN DigitRunEnd(s, i + 1) ELSE i - 1

\* the same for whitespace: what a greedy \s+ consumes
RECURSIVE SpaceRunEnd(_, _)
SpaceRunEnd(s, i) ==
  IF i <= Len(s) /\ IsSpace(CharAt(s, i)) THEN SpaceRunEnd(s, i + 1) ELSE i - 1

\* the end of the match of /\bport\s+(\d+)\b/i that starts at i, 0 for none.
\* \s and \d share no character and \d+ followed by \b cannot give a digit
\* back, so the greedy runs are the only way the pattern matches.
PortMatchEnd(s, i) ==
  LET spaces == SpaceRunEnd(s, i + 4)
      digits == DigitRunEnd(s, spaces + 1)
  IN  IF /\ WordBoundary(s, i)
         /\ i + 3 <= Len(s)
         /\ toLowerCase(SubSeq(s, i, i + 3)) = "port"
         /\ spaces >= i + 4
         /\ digits >= spaces + 1
         /\ WordBoundary(s, digits + 1)
      THEN digits
      ELSE 0

\* whether the n characters of s from i on are all digits
DigitsAt(s, i, n) ==
  i + n - 1 <= Len(s) /\ \A k \in i..(i + n - 1) : IsDigit(CharAt(s, k))

\* the end of the match of /\b(\d{4,5})\b/ that starts at i, 0 for none:
\* five digits are tried first, then four
StandaloneMatchEnd(s, i) ==
  IF ~WordBoundary(s, i) THEN 0
  ELSE IF DigitsAt(s, i, 5) /\ WordBoundary(s, i + 5) THEN i + 4
  ELSE IF DigitsAt(s, i, 4) /\ WordBoundary(s, i + 4) THEN i + 3
  ELSE 0

\* String.prototype.match with a g flag: the matches from left to right,
\* each search starting where the last match ended
RECURSIVE PortMatches(_, _)
PortMatches(s, i) ==
  IF i > Len(s) THEN <<>>
  ELSE LET e == PortMatchEnd(s, i)
       IN  IF e > 0 THEN <<SubSeq(s, i, e)>> \o PortMatches(s, e + 1)
           ELSE PortMatches(s, i + 1)

RECURSIVE StandaloneMatches(_, _)
StandaloneMatches(s, i) ==
  IF i > Len(s) THEN <<>>
  ELSE LET e == StandaloneMatchEnd(s, i)
       IN  IF e > 0 THEN <<SubSeq(s, i, e)>> \o StandaloneMatches(s, e + 1)
           ELSE StandaloneMatches(s, i + 1)

\* match.replace(/\D/g, '')
RECURSIVE StripNonDigits(_)
StripNonDigits(s) ==
  IF Len(s) = 0 THEN ""
  ELSE (IF IsDigit(CharAt(s, 1)) THEN CharAt(s, 1) ELSE "")
         \o StripNonDigits(SubSeq(s, 2, Len(s)))

DigitValue ==
  ("0" :> 0) @@ ("1" :> 1) @@ ("2" :> 2) @@ ("3" :> 3) @@ ("4" :> 4)
    @@ ("5" :> 5) @@ ("6" :> 6) @@ ("7" :> 7) @@ ("8" :> 8) @@ ("9" :> 9)

\* parseInt(s, 10) of a string of digits, read from the left with the value
\* so far in v. A value of six digits or more is kept as it is: it exceeds
\* 65535 and 9999, the only numbers a port is compared with, and so does
\* every number it is a prefix of.
RECURSIVE ParseDigits(_, _)
ParseDigits(s, v) ==
  IF Len(s) = 0 \/ v >= 100000 THEN v
  ELSE ParseDigits(SubSeq(s, 2, Len(s)), 10 * v + DigitValue[CharAt(s, 1)])

parseInt(s) == ParseDigits(s, 0)

\* [...new Set(list)]: the first occurrence of every element, in order
RECURSIVE Dedup(_)
Dedup(list) ==
  IF list = <<>> THEN <<>>
  ELSE LET front == Dedup(SubSeq(list, 1, Len(list) - 1))
           last == list[Len(list)]
       IN  IF Includes(front, last) THEN front ELSE Append(front, last)

\* list.map(f) for the two conversions of the port extraction
RECURSIVE MapPortMatches(_)
MapPortMatches(matches) ==
  IF matches = <<>> THEN <<>>
  ELSE <<parseInt(StripNonDigits(Head(matches)))>>
         \o MapPortMatches(Tail(matches))

RECURSIVE MapStandaloneMatches(_)
MapStandaloneMatches(matches) ==
  IF matches = <<>> THEN <<>>
  ELSE <<parseInt(Head(matches))>> \o MapStandaloneMatches(Tail(matches))

(***************************************************************************)
(* ConfigGenerator.analyzePrompt: the pattern tables, lines 92-141.        *)
(* An optional character (node\.?js) is written as two alternatives.       *)
(***************************************************************************)
languagePatterns ==
  <<[tag |-> "javascript", alternatives |-> {"javascript", "js", "nodejs", "node.js", "npm", "yarn"}],
    [tag |-> "typescript", alternatives |-> {"typescript", "ts"}],
    [tag |-> "python", alternatives |-> {"python", "py", "django", "flask", "fastapi", "pip"}],
    [tag |-> "go", alternatives |-> {"go", "golang"}],
    [tag |-> "rust", alternatives |-> {"rust", "cargo"}],
    [tag |-> "java", alternatives |-> {"java", "maven", "gradle", "spring"}],
    [tag |-> "php", alternatives |-> {"php", "composer", "laravel", "symfony"}],
    [tag |-> "ruby", alternatives |-> {"ruby", "rails", "gem", "bundler"}],
    [tag |-> "csharp", alternatives |-> {"c#", "csharp", ".net", "dotnet"}],
    [tag |-> "cpp", alternatives |-> {"c++", "cpp", "cmake"}]>>

frameworkPatterns ==
  <<[tag |-> "react", alternatives |-> {"react", "jsx", "nextjs", "next.js"}],
    [tag |-> "angular", alternatives |-> {"angular", "ng"}],
    [tag |-> "vue", alternatives |-> {"vue", "vuejs"}],
    [tag |-> "express", alternatives |-> {"express", "expressjs"}],
    [tag |-> "django", alternatives |-> {"django"}],
    [tag |-> "flask", alternatives |-> {"flask"}],
    [tag |-> "fastapi", alternatives |-> {"fastapi", "fast api"}],
    [tag |-> "rails", alternatives |-> {"rails", "ruby on rails"}],
    [tag |-> "spring", alternatives |-> {"spring", "springboot", "spring boot"}],
    [tag |-> "gin", alternatives |-> {"gin"}],
    [tag |-> "fiber", alternatives |-> {"fiber"}],
    [tag |-> "actix", alternatives |-> {"actix"}],
    [tag |-> "rocket", alternatives |-> {"rocket"}]>>

databasePatterns ==
  <<[tag |-> "postgresql", alternatives |-> {"postgres", "postgresql", "psql"}],
    [tag |-> "mysql", alternatives |-> {"mysql"}],
    [tag |-> "mongodb", alternatives |-> {"mongo", "mongodb"}],
    [tag |-> "redis", alternatives |-> {"redis"}],
    [tag |-> "sqlite", alternatives |-> {"sqlite"}],
    [tag |-> "elasticsearch", alternatives |-> {"elasticsearch", "elastic"}]>>

toolPatterns ==
  <<[tag |-> "docker", alternatives |-> {"docker", "container"}],
    [tag |-> "git", alternatives |-> {"git", "github", "gitlab"}],
    [tag |-> "vim", alternatives |-> {"vim", "neovim", "nvim"}],
    [tag |-> "zsh", alternatives |-> {"zsh", "oh-my-zsh"}],
    [tag |-> "curl", alternatives |-> {"curl"}],
    [tag |-> "wget", alternatives |-> {"wget"}],
    [tag |-> "jq", alternatives |-> {"jq"}]>>


(***************************************************************************)
(* ConfigGenerator.analyzePrompt.                                          *)
(***************************************************************************)
\* the detection loops of lines 143-173: the tags of a table, in table
\* order, one of whose patterns matches
DetectTags(table, lowerPrompt) ==
  LET Matches(entry) == TestWords(lowerPrompt, entry.alternatives)
      hits == SelectSeq(table, Matches)
  IN  [i \in 1..Len(hits) |-> hits[i].tag]

\* the filter of line 179 with port >= 0 for port > 0
ValidPortFromZero(port) == port >= 0 /\ port <= 65535

\* the filter of line 179
ValidPort(port) == port > 0 /\ port <= 65535

\* the filter of line 185
CommonDevPort(port) == port >= 3000 /\ port <= 9999

\* lines 176-179
ExplicitPorts(prompt) ==
  SelectSeq(MapPortMatches(PortMatches(prompt, 1)), ValidPort)

\* lines 182-185
StandalonePorts(prompt) ==
  SelectSeq(MapStandaloneMatches(StandaloneMatches(prompt, 1)), CommonDevPort)

\* line 187 without the Set: the two lists only concatenated
AllPortsConcatenated(ports, standalonePorts) == ports \o standalonePorts

\* line 187
AllPorts(ports, standalonePorts) == Dedup(ports \o standalonePorts)

\* lines 190-195 with 'debian' for the initial value of os
DetectOsDefaultDebian(prompt) ==
  IF TestWords(toLowerCase(prompt), {"alpine", "alpine linux"}) THEN "alpine"
  ELSE "debian"

\* lines 190-195; the i flag is modelled by matching the lower-cased prompt
DetectOs(prompt) ==
  IF TestWords(toLowerCase(prompt), {"alpine", "alpine linux"}) THEN "alpine"
  ELSE IF TestWords(toLowerCase(prompt), {"debian"}) THEN "debian"
  ELSE "ubuntu"

\* lines 198-213
RecommendedExtensions(languages, frameworks) ==
  (IF Includes(languages, "typescript") \/ Includes(languages, "javascript")
   THEN <<"ms-vscode.vscode-typescript-next", "ms-vscode.vscode-eslint">>
   ELSE <<>>)
  \o (IF Includes(languages, "python")
      THEN <<"ms-python.python", "ms-python.pylint">> ELSE <<>>)
  \o (IF Includes(languages, "go") THEN <<"golang.go">> ELSE <<>>)
  \o (IF Includes(languages, "rust")
      THEN <<"rust-lang.rust-analyzer">> ELSE <<>>)
  \o (IF Includes(frameworks, "react")
      THEN <<"bradlc.vscode-tailwindcss", "esbenp.prettier-vscode">>
      ELSE <<>>)

analyzePrompt(prompt) ==
  LET lowerPrompt == toLowerCase(prompt)
      languages == DetectTags(languagePatterns, lowerPrompt)
      frameworks == DetectTags(frameworkPatterns, lowerPrompt)
  IN  [languages |-> languages,
       frameworks |-> frameworks,
       tools |-> DetectTags(toolPatterns, lowerPrompt),
       databases |-> DetectTags(databasePatterns, lowerPrompt),
       os |-> DetectOs(prompt),
       ports |-> AllPorts(ExplicitPorts(prompt), StandalonePorts(prompt)),
       extensions |-> Dedup(RecommendedExtensions(languages, frameworks)),
       originalPrompt |-> prompt]

(***************************************************************************)
(* ConfigGenerator.generateConfig and applyModifications: documents.       *)
(* A JSON object is a function from its keys; an absent key is outside     *)
(* its DOMAIN.                                                             *)
(***************************************************************************)
\* whether obj[key] is truthy, for the object- and array-valued keys the
\* code tests: a present object or array (even an empty one) is truthy
Has(obj, key) == key \in DOMAIN obj

\* obj[key] = value
Put(obj, key, value) ==
  [k \in DOMAIN obj \cup {key} |-> IF k = key THEN value ELSE obj[k]]

\* obj[key] || []
ListOrEmpty(obj, key) == IF Has(obj, key) THEN obj[key] ELSE <<>>

\* {...config}: a new top-level object whose nested objects are still the
\* original's
ShallowClone(config) ==
  [value |-> config, shared |-> {"features", "customizations"}]

\* JSON.parse(JSON.stringify(config)): a copy that shares no object with
\* the original. shared names the parts of the copy that are the very
\* objects of the original, which in-place writes would therefore reach.
JsonClone(config) == [value |-> config, shared |-> {}]

\* the original object after the in-place writes that turned its copy into
\* result, given the parts the copy shares with it
WrittenThrough(original, result, shared) ==
  LET withFeatures ==
        IF "features" \in shared /\ Has(original, "features")
        THEN Put(original, "features", result.features) ELSE original
  IN  IF "customizations" \in shared /\ Has(original, "customizations")
      THEN Put(withFeatures, "customizations", result.customizations)
      ELSE withFeatures

\* lines 235-238 with the Set left out: the new ports only appended
MergePortsAppended(config, analysis) ==
  IF Len(analysis.ports) > 0
  THEN Put(config, "forwardPorts",
           ListOrEmpty(config, "forwardPorts") \o analysis.ports)
  ELSE config

\* lines 235-238 and 382-385 with the list replaced by the requested ports
\* instead of united with them
MergePortsRequestedOnly(config, analysis) ==
  IF Len(analysis.ports) > 0
  THEN Put(config, "forwardPorts", Dedup(analysis.ports))
  ELSE config

\* lines 235-238 and 382-385
MergePorts(config, analysis) ==
  IF Len(analysis.ports) > 0
  THEN Put(config, "forwardPorts",
           Dedup(ListOrEmpty(config, "forwardPorts") \o analysis.ports))
  ELSE config

\* lines 241-256 with customizations built anew around the merged list
\* instead of being filled in where it stands
MergeExtensionsReplacing(config, analysis) ==
  IF Len(analysis.extensions) > 0
  THEN LET customizations ==
             IF Has(config, "customizations") THEN config.customizations
             ELSE EmptyObject
           vscode ==
             IF Has(customizations, "vscode") THEN customizations.vscode
             ELSE EmptyObject
           existingExtensions == ListOrEmpty(vscode, "extensions")
       IN  Put(config, "customizations",
             [vscode |->
                [extensions |->
                   Dedup(existingExtensions \o analysis.extensions)]])
  ELSE config

\* lines 241-256 and 388-403
MergeExtensions(config, analysis) ==
  IF Len(analysis.extensions) > 0
  THEN LET customizations ==
             IF Has(config, "customizations") THEN config.customizations
             ELSE EmptyObject
           vscode ==
             IF Has(customizations, "vscode") THEN customizations.vscode
             ELSE EmptyObject
           existingExtensions == ListOrEmpty(vscode, "extensions")
       IN  Put(config, "customizations",
             Put(customizations, "vscode",
               Put(vscode, "extensions",
                   Dedup(existingExtensions \o analysis.extensions))))
  ELSE config

\* if (!config.features) config.features = {}
EnsureFeatures(config) ==
  IF Has(config, "features") THEN config ELSE Put(config, "features", EmptyObject)

\* config.features[key] = {}
AddFeature(config, key) ==
  Put(config, "features", Put(config.features, key, EmptyObject))

\* the switch of lines 265-275 with the break after 'postgresql' missing
DatabaseFeaturesFallThrough(db) ==
  CASE db = "postgresql" ->
         <<"ghcr.io/devcontainers/features/postgres:1",
           "ghcr.io/devcontainers/features/mongo:1">>
    [] db = "mongodb" -> <<"ghcr.io/devcontainers/features/mongo:1">>
    [] db = "redis" -> <<"ghcr.io/devcontainers/features/redis:1">>
    [] OTHER -> <<>>

\* the switch of lines 265-275 and 412-422: the feature keys a database
\* tag adds
DatabaseFeatures(db) ==
  CASE db = "postgresql" -> <<"ghcr.io/devcontainers/features/postgres:1">>
    [] db = "mongodb" -> <<"ghcr.io/devcontainers/features/mongo:1">>
    [] db = "redis" -> <<"ghcr.io/devcontainers/features/redis:1">>
    [] OTHER -> <<>>

RECURSIVE AddFeatures(_, _)
AddFeatures(config, keys) ==
  IF keys = <<>> THEN config
  ELSE AddFeatures(AddFeature(config, Head(keys)), Tail(keys))

\* the for loop of lines 264-276 and 411-423
RECURSIVE AddDatabaseFeatures(_, _)
AddDatabaseFeatures(config, databases) ==
  IF databases = <<>> THEN config
  ELSE AddDatabaseFeatures(AddFeatures(config, DatabaseFeatures(Head(databases))),
                           Tail(databases))

\* lines 259-292 of generateConfig
BuildFeatures(config, analysis) ==
  LET withDatabases ==
        IF Len(analysis.databases) > 0
        THEN AddDatabaseFeatures(EnsureFeatures(config), analysis.databases)
        ELSE config
      withDocker ==
        IF Includes(analysis.tools, "docker")
        THEN AddFeature(EnsureFeatures(withDatabases),
                        "ghcr.io/devcontainers/features/docker-in-docker:2")
        ELSE withDatabases
  IN  IF Includes(analysis.tools, "git")
      THEN AddFeature(EnsureFeatures(withDocker),
                      "ghcr.io/devcontainers/features/git:1")
      ELSE withDocker

\* lines 406-431 of applyModifications
ModifyFeatures(config, analysis) ==
  IF Len(analysis.databases) > 0 \/ Len(analysis.tools) > 0
  THEN LET withDatabases ==
             AddDatabaseFeatures(EnsureFeatures(config), analysis.databases)
           withDocker ==
             IF Includes(analysis.tools, "docker")
             THEN AddFeature(withDatabases,
                             "ghcr.io/devcontainers/features/docker-in-docker:2")
             ELSE withDatabases
       IN  IF Includes(analysis.tools, "git")
           THEN AddFeature(withDocker, "ghcr.io/devcontainers/features/git:1")
           ELSE withDocker
  ELSE config

\* t.charAt(0).toUpperCase() + t.slice(1)
Capitalize(t) == UpperChar(CharAt(t, 1)) \o SubSeq(t, 2, Len(t))

\* list.join(separator)
RECURSIVE Join(_, _)
Join(list, separator) ==
  IF list = <<>> THEN ""
  ELSE IF Len(list) = 1 THEN list[1]
  ELSE list[1] \o separator \o Join(Tail(list), separator)

\* line 296 with the frameworks put before the languages
TechStackFrameworksFirst(analysis) ==
  LET all == analysis.frameworks \o analysis.languages
  IN  SubSeq(all, 1, IF Len(all) < 3 THEN Len(all) ELSE 3)

\* line 296: [...languages, ...frameworks].slice(0, 3)
TechStack(analysis) ==
  LET all == analysis.languages \o analysis.frameworks
  IN  SubSeq(all, 1, IF Len(all) < 3 THEN Len(all) ELSE 3)

\* lines 295-298
Rename(config, analysis) ==
  IF Len(analysis.languages) > 0 \/ Len(analysis.frameworks) > 0
  THEN LET techStack == TechStack(analysis)
           titles == [i \in 1..Len(techStack) |-> Capitalize(techStack[i])]
       IN  Put(config, "name", Join(titles, " & ") \o " Development")
  ELSE config

\* generateConfig on the copy made at line 232
BuildOn(config, analysis) ==
  Rename(BuildFeatures(MergeExtensions(MergePorts(config, analysis), analysis),
                       analysis),
         analysis)

generateConfig(template, analysis) ==
  BuildOn(JsonClone(template.config).value, analysis)

applyModifications(config, analysis) ==
  ModifyFeatures(MergeExtensions(MergePorts(JsonClone(config).value, analysis),
                                 analysis),
                 analysis)

(***************************************************************************)
(* Calls and their execution.                                              *)
(***************************************************************************)
\* language and framework tags a caller hands to findBestMatch
LanguageInputs == {"go", "python", "java", "Rust", "cobol"}

FrameworkInputs == {"actix", "rocket", "universal", "Django", "htmx"}

FindBestMatchCalls ==
  {[op |-> "findBestMatch", languages |-> l, frameworks |-> f] :
     l \in SeqsUpTo(LanguageInputs, MaxTags),
     f \in SeqsUpTo(FrameworkInputs, MaxTags)}

\* the last call made and what it returned
Last == done[Len(done)]

Returned(opName) == Len(done) > 0 /\ Last.call.op = opName

\* a client calls templateManager.findBestMatch(languages, frameworks)
FindBestMatch ==
  /\ pending # <<>>
  /\ Head(pending).op = "findBestMatch"
  /\ done' = Append(done,
       [call |-> Head(pending),
        result |-> findBestMatch(templates, Head(pending).languages,
                                 Head(pending).frameworks)])
  /\ pending' = Tail(pending)
  /\ UNCHANGED <<templates, disk, inflight>>

InitSelect ==
  /\ templates = SeedTemplates
  /\ pending \in {<<c>> : c \in FindBestMatchCalls}
  /\ done = <<>>
  /\ disk = NoFile
  /\ inflight = NoCalls

NextSelect == FindBestMatch

SpecSelect == InitSelect /\ [][NextSelect]_vars

\* the pieces the texts of the port extraction are put together from
TextPieces ==
  {"port", "PORT", " ", ".", "x", "0", "50", "3005", "8080", "70000",
   "99999", "ts js react redis git"}

RECURSIVE Concat(_)
Concat(pieces) ==
  IF pieces = <<>> THEN "" ELSE Head(pieces) \o Concat(Tail(pieces))

Texts == {Concat(pieces) : pieces \in SeqsUpTo(TextPieces, MaxPieces)}

AnalyzePromptCalls == {[op |-> "analyzePrompt", prompt |-> t] : t \in Texts}

\* a call of analyzePrompt(prompt), as generateFromPrompt and
\* modifyConfiguration make it
AnalyzePrompt ==
  /\ pending # <<>>
  /\ Head(pending).op = "analyzePrompt"
  /\ done' = Append(done,
       [call |-> Head(pending),
        result |-> analyzePrompt(Head(pending).prompt)])
  /\ pending' = Tail(pending)
  /\ UNCHANGED <<templates, disk, inflight>>

InitExtract ==
  /\ templates = SeedTemplates
  /\ pending \in {<<c>> : c \in AnalyzePromptCalls}
  /\ done = <<>>
  /\ disk = NoFile
  /\ inflight = NoCalls

NextExtract == AnalyzePrompt

SpecExtract == InitExtract /\ [][NextExtract]_vars

\* the phrases the prompts of build and modify calls are put together from
Phrases ==
  {"port 8080", "3005", "postgres", "mysql", "docker", "vim",
   "TypeScript React", "go gin"}

\* the prompts of at most n phrases, separated by blanks
Prompts(n) == {Join(phrases, " ") : phrases \in SeqsUpTo(Phrases, n)}

\* the feature sets analyzePrompt yields for them
Analyses(n) == {analyzePrompt(p) : p \in Prompts(n)}

MergeAnalyses == Analyses(MaxPhrases)

PairAnalyses == Analyses(MaxPairPhrases)

\* documents found in a workspace: the one the modify tests write, the one
\* of the port-merge example, hand-written ones without the optional
\* blocks, and documents as generated from a template
TestDocument ==
  [name |-> "Test Development",
   image |-> "mcr.microsoft.com/devcontainers/base:ubuntu",
   features |-> EmptyObject,
   customizations |-> [vscode |-> [extensions |-> <<>>]],
   forwardPorts |-> <<>>]

PortsDocument ==
  [name |-> "Web", image |-> "node:18", forwardPorts |-> <<3000>>]

ImageOnlyDocument == [image |-> "ubuntu:22.04"]

HandWrittenDocument ==
  [image |-> "ubuntu:22.04",
   customizations |-> [codespaces |-> EmptyObject],
   forwardPorts |-> <<3000, 8080, 3000>>,
   mounts |-> <<"source=cache,target=/cache,type=volume">>]

\* a document whose docker-in-docker feature has options set by hand
ConfiguredFeatureDocument ==
  [image |-> "ubuntu:22.04",
   features |->
     ("ghcr.io/devcontainers/features/docker-in-docker:2" :> [moby |-> FALSE])
       @@ ("ghcr.io/devcontainers/features/node:1" :> [version |-> "20"])]

ExistingDocuments ==
  {TestDocument, PortsDocument, ImageOnlyDocument, HandWrittenDocument,
   ConfiguredFeatureDocument}
    \cup {SeedTemplates[i].config : i \in 1..Len(SeedTemplates)}

TemplateNames == {SeedTemplates[i].name : i \in 1..Len(SeedTemplates)}

GenerateConfigCalls(analyses) ==
  {[op |-> "generateConfig", template |-> t, analysis |-> a] :
     t \in TemplateNames, a \in analyses}

ApplyModificationsCalls(analyses) ==
  {[op |-> "applyModifications", config |-> d, analysis |-> a] :
     d \in ExistingDocuments, a \in analyses}

\* the catalog position of the template with a name
IndexOf(list, name) == CHOOSE i \in 1..Len(list) : list[i].name = name

\* generateFromPrompt calls generateConfig(template, analysis), line 64. The
\* writes go to the copy of line 232; the catalog entry changes only where
\* that copy still shares objects with it.
GenerateConfig ==
  /\ pending # <<>>
  /\ Head(pending).op = "generateConfig"
  /\ LET c == Head(pending)
         i == IndexOf(templates, c.template)
         copy == JsonClone(templates[i].config)
         config == BuildOn(copy.value, c.analysis)
     IN  /\ done' = Append(done,
               [call |-> c, base |-> templates[i].config, result |-> config])
         /\ templates' =
              [templates EXCEPT ![i].config =
                 WrittenThrough(@, config, copy.shared)]
  /\ pending' = Tail(pending)
  /\ UNCHANGED <<disk, inflight>>

\* modifyConfiguration calls applyModifications(existingConfig, analysis),
\* line 358
ApplyModifications ==
  /\ pending # <<>>
  /\ Head(pending).op = "applyModifications"
  /\ LET c == Head(pending)
     IN  done' = Append(done,
           [call |-> c, base |-> c.config,
            result |-> applyModifications(c.config, c.analysis)])
  /\ pending' = Tail(pending)
  /\ UNCHANGED <<templates, disk, inflight>>

\* one build or one modify
InitMerge ==
  /\ templates = SeedTemplates
  /\ pending \in {<<c>> : c \in GenerateConfigCalls(MergeAnalyses)
                            \cup ApplyModificationsCalls(MergeAnalyses)}
  /\ done = <<>>
  /\ disk = NoFile
  /\ inflight = NoCalls

NextMerge == GenerateConfig \/ ApplyModifications

SpecMerge == InitMerge /\ [][NextMerge]_vars

\* two builds in a row from the same template
InitBuild ==
  /\ templates = SeedTemplates
  /\ pending \in
       {<<[op |-> "generateConfig", template |-> t, analysis |-> f1],
          [op |-> "generateConfig", template |-> t, analysis |-> f2]>> :
          t \in TemplateNames, f1 \in PairAnalyses, f2 \in PairAnalyses}
  /\ done = <<>>
  /\ disk = NoFile
  /\ inflight = NoCalls

NextBuild == GenerateConfig

SpecBuild == InitBuild /\ [][NextBuild]_vars

(***************************************************************************)
(* TemplateManager: the catalog queries.                                   *)
(***************************************************************************)
\* getAllTemplates: [...this.templates], a new list of the same descriptors
getAllTemplates(list) == list

\* filter.key && ...: the key is there and its string is not empty
IsSet(filter, key) == Has(filter, key) /\ filter[key] # ""

\* the callback of lines 358-369 returning true as soon as one predicate
\* that is set is satisfied
MatchesAnyPredicate(template, filter) ==
  \/ ~(IsSet(filter, "category") \/ IsSet(filter, "language")
         \/ IsSet(filter, "framework"))
  \/ IsSet(filter, "category") /\ template.category = filter.category
  \/ IsSet(filter, "language") /\ Includes(template.languages, filter.language)
  \/ IsSet(filter, "framework")
       /\ Includes(template.frameworks, filter.framework)

\* the callback of lines 358-369
MatchesFilter(template, filter) ==
  IF IsSet(filter, "category") /\ template.category # filter.category
  THEN FALSE
  ELSE IF IsSet(filter, "language")
            /\ ~Includes(template.languages, filter.language)
  THEN FALSE
  ELSE IF IsSet(filter, "framework")
            /\ ~Includes(template.frameworks, filter.framework)
  THEN FALSE
  ELSE TRUE

\* getTemplates(filter?)
getTemplates(list, filter) ==
  IF ~filter.given THEN getAllTemplates(list)
  ELSE SelectSeq(list, LAMBDA template : MatchesFilter(template, filter.value))

\* the characters of the category tags in the order of their UTF-16 code
\* units, which is the order Array.prototype.sort compares strings by
CodeUnitOrder ==
  "-0123456789ABCDEFGHIJKLMNOPQRSTUVWXYZ_abcdefghijklmnopqrstuvwxyz"

CodeUnit(c) ==
  CHOOSE i \in 1..Len(CodeUnitOrder) : CharAt(CodeUnitOrder, i) = c

\* a < b as sort() compares two strings
RECURSIVE StringBefore(_, _)
StringBefore(a, b) ==
  IF b = "" THEN FALSE
  ELSE IF a = "" THEN TRUE
  ELSE IF CharAt(a, 1) = CharAt(b, 1)
  THEN StringBefore(SubSeq(a, 2, Len(a)), SubSeq(b, 2, Len(b)))
  ELSE CodeUnit(CharAt(a, 1)) < CodeUnit(CharAt(b, 1))

\* a sorted list with one more string put in its place
RECURSIVE Inserted(_, _)
Inserted(sorted, x) ==
  IF sorted = <<>> THEN <<x>>
  ELSE IF StringBefore(x, Head(sorted)) THEN <<x>> \o sorted
  ELSE <<Head(sorted)>> \o Inserted(Tail(sorted), x)

\* list.sort() on a new list of strings
RECURSIVE Sorted(_)
Sorted(list) ==
  IF list = <<>> THEN <<>>
  ELSE Inserted(Sorted(SubSeq(list, 1, Len(list) - 1)), list[Len(list)])

\* getCategories
getCategories(list) ==
  Sorted(Dedup([i \in 1..Len(list) |-> list[i].category]))

(***************************************************************************)
(* ConfigGenerator.generateFromPrompt and modifyConfiguration: the file    *)
(* system calls, the choice of the template and the reasoning texts.       *)
(***************************************************************************)
\* path.join(workspaceRoot, '.devcontainer', 'devcontainer.json') for the
\* one workspace of the model
configPath == "workspace/.devcontainer/devcontainer.json"

\* fs.pathExists that answers true whatever is there
pathExistsAlways(file) == TRUE

\* fs.pathExists(configPath)
pathExists(file) == file.kind # "absent"

\* fs.readJson that answers an empty document for a text it cannot parse
readJsonLenient(file) ==
  CASE file.kind = "json" -> [value |-> file.value]
    [] file.kind = "malformed" -> [value |-> EmptyObject]
    [] file.kind = "absent" -> [error |-> "ENOENT: no such file or directory"]

\* fs.readJson(configPath): the parsed document, or the error it throws
readJson(file) ==
  CASE file.kind = "json" -> [value |-> file.value]
    [] file.kind = "malformed" -> [error |-> "SyntaxError: Unexpected token"]
    [] file.kind = "absent" -> [error |-> "ENOENT: no such file or directory"]

\* fs.writeJson(configPath, config, { spaces: 2 }): the file afterwards
writeJson(config) == JsonFile(config)

\* if (baseTemplate): the argument is given and is not the empty string
Truthy(argument) == argument.given /\ argument.value # ""

\* lines 48-61 with the scored selection used whatever baseTemplate is
ChooseTemplateByScoreOnly(list, baseTemplate, analysis) ==
  LET template == findBestMatch(list, analysis.languages, analysis.frameworks)
  IN  IF template = Null THEN [error |-> "No suitable template found"]
      ELSE [template |-> template]

\* lines 48-61: the template to build from, or the error thrown
ChooseTemplate(list, baseTemplate, analysis) ==
  LET template ==
        IF Truthy(baseTemplate) THEN getTemplate(list, baseTemplate.value)
        ELSE findBestMatch(list, analysis.languages, analysis.frameworks)
  IN  IF Truthy(baseTemplate) /\ template = Null
      THEN [error |-> "Template '" \o baseTemplate.value \o "' not found"]
      ELSE IF template = Null THEN [error |-> "No suitable template found"]
      ELSE [template |-> template]

\* String(n) for a port number
RECURSIVE NumberToString(_)
NumberToString(n) ==
  LET digit == CharAt("0123456789", (n % 10) + 1)
  IN  IF n < 10 THEN digit ELSE NumberToString(n \div 10) \o digit

\* ports.join(', ')
JoinPorts(ports) ==
  Join([i \in 1..Len(ports) |-> NumberToString(ports[i])], ", ")

\* generateReasoning, lines 306-336
generateReasoning(analysis, template) ==
  LET reasons ==
        <<"Selected '" \o template.name
            \o "' template based on detected technologies.">>
        \o (IF Len(analysis.languages) > 0
            THEN <<"Detected languages: " \o Join(analysis.languages, ", ")>>
            ELSE <<>>)
        \o (IF Len(analysis.frameworks) > 0
            THEN <<"Detected frameworks: " \o Join(analysis.frameworks, ", ")>>
            ELSE <<>>)
        \o (IF Len(analysis.databases) > 0
            THEN <<"Added database support for: "
                     \o Join(analysis.databases, ", ")>>
            ELSE <<>>)
        \o (IF Len(analysis.ports) > 0
            THEN <<"Configured port forwarding for: " \o JoinPorts(analysis.ports)>>
            ELSE <<>>)
        \o (IF Len(analysis.extensions) > 0
            THEN <<"Added VS Code extensions for detected technologies">>
            ELSE <<>>)
        \o (IF Len(analysis.tools) > 0
            THEN <<"Added development tools: " \o Join(analysis.tools, ", ")>>
            ELSE <<>>)
  IN  Join(reasons, ". ") \o "."

\* generateModificationReasoning, lines 439-465
generateModificationReasoning(analysis) ==
  LET changes ==
        (IF Len(analysis.languages) > 0
         THEN <<"Added support for: " \o Join(analysis.languages, ", ")>>
         ELSE <<>>)
        \o (IF Len(analysis.databases) > 0
            THEN <<"Added database features: " \o Join(analysis.databases, ", ")>>
            ELSE <<>>)
        \o (IF Len(analysis.ports) > 0
            THEN <<"Added port forwarding: " \o JoinPorts(analysis.ports)>>
            ELSE <<>>)
        \o (IF Len(analysis.extensions) > 0
            THEN <<"Added VS Code extensions for detected technologies">>
            ELSE <<>>)
        \o (IF Len(analysis.tools) > 0
            THEN <<"Added development tools: " \o Join(analysis.tools, ", ")>>
            ELSE <<>>)
  IN  IF Len(changes) > 0
      THEN "Modified configuration: " \o Join(changes, "; ") \o "."
      ELSE "No applicable modifications found in the request."

(***************************************************************************)
(* Calls on a workspace and their execution. generateFromPrompt and        *)
(* modifyConfiguration are asynchronous: each runs up to its next await    *)
(* in one step, and a client may begin a call while another is in flight.  *)
(***************************************************************************)
\* the call number given to the next asynchronous call
NextId == Len(done) + Cardinality(DOMAIN inflight) + 1

\* the calls in flight with one of them settled
Settled(id) == [i \in DOMAIN inflight \ {id} |-> inflight[i]]

\* generateFromPrompt, lines 45-70: the prompt is analysed, the template
\* chosen and the configuration generated; the call then waits for the
\* directory and the write
GenerateFromPromptBegin ==
  /\ pending # <<>>
  /\ Head(pending).op = "generateFromPrompt"
  /\ LET c == Head(pending)
         analysis == analyzePrompt(c.prompt)
         chosen == ChooseTemplate(templates, c.baseTemplate, analysis)
     IN  IF Has(chosen, "error")
         THEN /\ done' = Append(done, [call |-> c, error |-> chosen.error])
              /\ UNCHANGED <<templates, inflight>>
         ELSE LET i == IndexOf(templates, chosen.template.name)
                  copy == JsonClone(templates[i].config)
                  config == BuildOn(copy.value, analysis)
              IN  /\ inflight' =
                       (NextId :> [call |-> c, pc |-> "writeJson",
                                   analysis |-> analysis,
                                   template |-> chosen.template,
                                   config |-> config]) @@ inflight
                  /\ templates' =
                       [templates EXCEPT ![i].config =
                          WrittenThrough(@, config, copy.shared)]
                  /\ UNCHANGED done
  /\ pending' = Tail(pending)
  /\ UNCHANGED disk

\* generateFromPrompt, lines 71-82: the configuration is written and the
\* result returned
GenerateFromPromptWrite(id) ==
  /\ inflight[id].call.op = "generateFromPrompt"
  /\ inflight[id].pc = "writeJson"
  /\ disk' = writeJson(inflight[id].config)
  /\ done' = Append(done,
       [call |-> inflight[id].call,
        result |->
          [content |-> inflight[id].config,
           path |-> configPath,
           reasoning |-> generateReasoning(inflight[id].analysis,
                                           inflight[id].template),
           template |-> inflight[id].template.name,
           analysis |-> inflight[id].analysis]])
  /\ inflight' = Settled(id)
  /\ UNCHANGED <<templates, pending>>

\* modifyConfiguration, lines 345-349: the existence check
ModifyConfigurationBegin ==
  /\ pending # <<>>
  /\ Head(pending).op = "modifyConfiguration"
  /\ LET c == Head(pending)
     IN  IF ~pathExists(disk)
         THEN /\ done' = Append(done,
                   [call |-> c, error |-> "No existing devcontainer.json found"])
              /\ UNCHANGED inflight
         ELSE /\ inflight' = (NextId :> [call |-> c, pc |-> "readJson"]) @@ inflight
              /\ UNCHANGED done
  /\ pending' = Tail(pending)
  /\ UNCHANGED <<templates, disk>>

\* modifyConfiguration, lines 352-358: the document is read, the request
\* analysed and the modifications applied; a read that throws ends the call
ModifyConfigurationRead(id) ==
  /\ inflight[id].call.op = "modifyConfiguration"
  /\ inflight[id].pc = "readJson"
  /\ LET c == inflight[id].call
         read == readJson(disk)
     IN  IF Has(read, "error")
         THEN /\ done' = Append(done, [call |-> c, error |-> read.error])
              /\ inflight' = Settled(id)
         ELSE LET analysis == analyzePrompt(c.modifications)
              IN  /\ inflight' =
                       [inflight EXCEPT ![id] =
                          [call |-> c, pc |-> "writeJson",
                           existingConfig |-> read.value,
                           analysis |-> analysis,
                           modifiedConfig |->
                             applyModifications(read.value, analysis)]]
                  /\ UNCHANGED done
  /\ UNCHANGED <<templates, pending, disk>>

\* line 361 writing existingConfig, the document as it was read
DocumentWrittenUnmodified(call, file) == call.existingConfig

\* line 361 with the modifications applied again to the file as it is
\* at the time of the write
DocumentWrittenFromFile(call, file) ==
  applyModifications(readJson(file).value, call.analysis)

\* line 361 writes modifiedConfig, which line 358 made from the document
\* read at line 352, whatever the file holds by now
DocumentWritten(call, file) == call.modifiedConfig

\* modifyConfiguration, lines 361-372: the modified document is written and
\* the result returned; existingConfig is kept with the result
ModifyConfigurationWrite(id) ==
  /\ inflight[id].call.op = "modifyConfiguration"
  /\ inflight[id].pc = "writeJson"
  /\ disk' = writeJson(DocumentWritten(inflight[id], disk))
  /\ done' = Append(done,
       [call |-> inflight[id].call,
        existingConfig |-> inflight[id].existingConfig,
        result |->
          [content |-> DocumentWritten(inflight[id], disk),
           path |-> configPath,
           reasoning |-> generateModificationReasoning(inflight[id].analysis),
           template |-> "modified",
           analysis |-> inflight[id].analysis]])
  /\ inflight' = Settled(id)
  /\ UNCHANGED <<templates, pending>>

\* the base templates a caller names: none, the empty string, two catalog
\* templates and a name the catalog lacks
BaseTemplateInputs ==
  {NotGiven, Given(""), Given("rust"), Given("non-existent")}

GeneratePrompts == {"python django", "go 3005"}

GenerateFromPromptCalls ==
  {[op |-> "generateFromPrompt", prompt |-> p, baseTemplate |-> b] :
     p \in GeneratePrompts, b \in BaseTemplateInputs}

ModificationTexts == {"port 8080", "postgres docker", "TypeScript React"}

ModifyConfigurationCalls ==
  {[op |-> "modifyConfiguration", modifications |-> t] : t \in ModificationTexts}

\* what the workspace holds to begin with
InitialFiles == {NoFile, MalformedFile, JsonFile(PortsDocument)}

\* the non-empty lists over S of length at most n
CallsUpTo(S, n) == SeqsUpTo(S, n) \ {<<>>}

\* a client makes up to MaxCalls generate and modify calls on one workspace
InitWorkspace ==
  /\ templates = SeedTemplates
  /\ pending \in CallsUpTo(GenerateFromPromptCalls \cup ModifyConfigurationCalls,
                           MaxCalls)
  /\ done = <<>>
  /\ disk \in InitialFiles
  /\ inflight = NoCalls

NextWorkspace ==
  \/ GenerateFromPromptBegin
  \/ \E id \in DOMAIN inflight : GenerateFromPromptWrite(id)
  \/ ModifyConfigurationBegin
  \/ \E id \in DOMAIN inflight : ModifyConfigurationRead(id)
  \/ \E id \in DOMAIN inflight : ModifyConfigurationWrite(id)

SpecWorkspace == InitWorkspace /\ [][NextWorkspace]_vars

\* a client that awaits each call before it makes the next, as the tests
\* do: a call begins only when no call is in flight
AwaitedGenerateFromPromptBegin ==
  /\ inflight = NoCalls
  /\ GenerateFromPromptBegin

AwaitedModifyConfigurationBegin ==
  /\ inflight = NoCalls
  /\ ModifyConfigurationBegin

\* the calls of such a client: a generate that leaves the choice to the
\* prompt, one that names a template, and modifications of which two name
\* a port
AwaitedCalls ==
  {[op |-> "generateFromPrompt", prompt |-> "python django",
    baseTemplate |-> NotGiven],
   [op |-> "generateFromPrompt", prompt |-> "go 3005",
    baseTemplate |-> Given("rust")]}
    \cup ModifyConfigurationCalls
    \cup {[op |-> "modifyConfiguration", modifications |-> "port 9000 git"]}

\* the documents among the files a workspace may hold to begin with
InitialDocuments == {file.value : file \in {f \in InitialFiles : f.kind = "json"}}

InitAwaited ==
  /\ templates = SeedTemplates
  /\ pending \in CallsUpTo(AwaitedCalls, MaxAwaitedCalls)
  /\ done = <<>>
  /\ disk \in InitialFiles
  /\ inflight = NoCalls

NextAwaited ==
  \/ AwaitedGenerateFromPromptBegin
  \/ \E id \in DOMAIN inflight : GenerateFromPromptWrite(id)
  \/ AwaitedModifyConfigurationBegin
  \/ \E id \in DOMAIN inflight : ModifyConfigurationRead(id)
  \/ \E id \in DOMAIN inflight : ModifyConfigurationWrite(id)

SpecAwaited == InitAwaited /\ [][NextAwaited]_vars

(***************************************************************************)
(* DevContainerManager: src/unnamed/part_001, lines 42-420. A command is   *)
(* a child process with a promise and a timer; Node delivers the child's   *)
(* events and the timer's expiry one at a time, in any order.              *)
(***************************************************************************)
\* the states of a promise
Pending == [state |-> "pending"]

Resolved(value) == [state |-> "resolved", value |-> value]

Rejected(message) == [state |-> "rejected", message |-> message]

\* resolve or reject of a promise that takes the latest call instead of the
\* first
SettleLatest(promise, outcome) == outcome

\* resolve(value) or reject(error) of the executor, line 334: the first call
\* settles the promise, later calls are ignored
Settle(promise, outcome) ==
  IF promise.state = "pending" THEN outcome ELSE promise

\* how a child process ended, the arguments of 'close': with an exit code,
\* or by a signal, when code is null
Exited(code) == [kind |-> "exit", code |-> code]

Signalled(signal) == [kind |-> "signal", signal |-> signal]

\* code || 0, line 353
ExitCodeOrZero(status) == IF status.kind = "exit" THEN status.code ELSE 0

\* s.trim() for the output texts of the model
RECURSIVE TrimStart(_)
TrimStart(s) ==
  IF s # "" /\ IsSpace(CharAt(s, 1)) THEN TrimStart(SubSeq(s, 2, Len(s))) ELSE s

RECURSIVE TrimEnd(_)
TrimEnd(s) ==
  IF s # "" /\ IsSpace(CharAt(s, Len(s)))
  THEN TrimEnd(SubSeq(s, 1, Len(s) - 1)) ELSE s

Trim(s) == TrimEnd(TrimStart(s))

\* lines 335-341 and 364-367: the child is spawned, the timer set, and the
\* promise returned; events is the order in which the events of this
\* command have been delivered so far
Spawned(command, args, timeout) ==
  [command |-> command, args |-> args, timeout |-> timeout,
   promise |-> Pending, timer |-> "armed", child |-> "running",
   killed |-> <<>>, stdout |-> "", stderr |-> "", events |-> <<>>]

\* the texts a child writes in one piece
Chunks == {"ok\n"}

\* the ways a child ends: it exits with 0 or 1, or a signal ends it
ExitStatuses(exec) ==
  {Exited(0), Exited(1), Signalled("SIGKILL")}
    \cup {Signalled(exec.killed[i]) : i \in 1..Len(exec.killed)}

\* whether call id waits for a command
Running(id) ==
  /\ inflight[id].pc = "executeCommand"
  /\ inflight[id].exec.child = "running"

\* 'data' on stdout or stderr, lines 343-349
ChildData(id) ==
  /\ Running(id)
  /\ LET exec == inflight[id].exec
     IN  /\ Len(exec.stdout) + Len(exec.stderr) < MaxChunks * 3
         /\ \E chunk \in Chunks, stream \in {"stdout", "stderr"} :
              inflight' =
                [inflight EXCEPT ![id].exec =
                   IF stream = "stdout"
                   THEN [exec EXCEPT !.stdout = @ \o chunk]
                   ELSE [exec EXCEPT !.stderr = @ \o chunk]]
  /\ UNCHANGED <<templates, pending, done, disk>>

\* the handlers of 'close', lines 351-357 and 369-371
OnClose(exec, status) ==
  [exec EXCEPT
     !.promise = Settle(@, Resolved([exitCode |-> ExitCodeOrZero(status),
                                     stdout |-> Trim(exec.stdout),
                                     stderr |-> Trim(exec.stderr)])),
     !.timer = IF @ = "armed" THEN "cleared" ELSE @,
     !.child = "closed",
     !.events = Append(@, [type |-> "close", status |-> status])]

\* the handler of 'error', lines 359-361
OnError(exec, message) ==
  [exec EXCEPT
     !.promise = Settle(@, Rejected("Failed to execute " \o exec.command
                                      \o ": " \o message)),
     !.events = Append(@, [type |-> "error", message |-> message])]

\* the timer's callback, lines 364-367
OnTimeout(exec) ==
  [exec EXCEPT
     !.killed = Append(@, "SIGTERM"),
     !.promise = Settle(@, Rejected("Command timed out after "
                                      \o NumberToString(exec.timeout) \o "ms")),
     !.timer = "fired",
     !.events = Append(@, [type |-> "timeout"])]

\* the child's 'close' event
ChildClose(id) ==
  /\ Running(id)
  /\ \E status \in ExitStatuses(inflight[id].exec) :
       inflight' = [inflight EXCEPT ![id].exec = OnClose(@, status)]
  /\ UNCHANGED <<templates, pending, done, disk>>

\* the child's 'error' event: it could not be spawned, or not be killed;
\* at most one per command in the model
ChildError(id) ==
  /\ Running(id)
  /\ \A i \in 1..Len(inflight[id].exec.events) :
       inflight[id].exec.events[i].type # "error"
  /\ inflight' = [inflight EXCEPT ![id].exec = OnError(@, "spawn npx ENOENT")]
  /\ UNCHANGED <<templates, pending, done, disk>>

\* the timer expires; a cleared timer never does
Timeout(id) ==
  /\ inflight[id].pc = "executeCommand"
  /\ inflight[id].exec.timer = "armed"
  /\ inflight' = [inflight EXCEPT ![id].exec = OnTimeout(@)]
  /\ UNCHANGED <<templates, pending, done, disk>>

\* a caller runs executeCommand(command, args, timeout), line 329
ExecuteCommand ==
  /\ pending # <<>>
  /\ Head(pending).op = "executeCommand"
  /\ LET c == Head(pending)
     IN  inflight' =
           (NextId :> [call |-> c, pc |-> "executeCommand", awaited |-> FALSE,
                       exec |-> Spawned(c.command, c.args, c.timeout)])
             @@ inflight
  /\ pending' = Tail(pending)
  /\ UNCHANGED <<templates, done, disk>>

\* the caller's await of the promise: it continues with the promise's
\* outcome once the promise has settled; the child and the timer live on
AwaitExecuteCommand(id) ==
  /\ inflight[id].call.op = "executeCommand"
  /\ inflight[id].exec.promise.state # "pending"
  /\ ~inflight[id].awaited
  /\ done' = Append(done, [call |-> inflight[id].call, id |-> id,
                           outcome |-> inflight[id].exec.promise])
  /\ inflight' = [inflight EXCEPT ![id].awaited = TRUE]
  /\ UNCHANGED <<templates, pending, disk>>

\* two of the commands the manager runs, with their timeouts: the build
\* (line 79) and a command in the container (line 274)
ExecuteCommandCalls ==
  {[op |-> "executeCommand", command |-> "npx",
    args |-> <<"@devcontainers/cli", "build">>, timeout |-> 300000],
   [op |-> "executeCommand", command |-> "npx",
    args |-> <<"@devcontainers/cli", "exec">>, timeout |-> 30000]}

\* up to MaxCommands commands run side by side
InitCommand ==
  /\ templates = SeedTemplates
  /\ pending \in CallsUpTo(ExecuteCommandCalls, MaxCommands)
  /\ done = <<>>
  /\ disk = NoFile
  /\ inflight = NoCalls

NextCommand ==
  \/ ExecuteCommand
  \/ \E id \in DOMAIN inflight : ChildData(id)
  \/ \E id \in DOMAIN inflight : ChildClose(id)
  \/ \E id \in DOMAIN inflight : ChildError(id)
  \/ \E id \in DOMAIN inflight : Timeout(id)
  \/ \E id \in DOMAIN inflight : AwaitExecuteCommand(id)

SpecCommand == InitCommand /\ [][NextCommand]_vars

\* a configuration kept beside the workspace's own, as in the test of the
\* custom config path
CustomDocument == [name |-> "Custom Container", image |-> "ubuntu:latest"]

\* the files outside .devcontainer that a configPath argument may name
OtherFiles == ("workspace/custom.json" :> JsonFile(CustomDocument))

\* the file at a path: the workspace's configuration, one of the other
\* files, or none
FileAt(path) ==
  IF path = configPath THEN disk
  ELSE IF path \in DOMAIN OtherFiles THEN OtherFiles[path]
  ELSE NoFile

\* configPath || path.join(workspaceRoot, '.devcontainer',
\* 'devcontainer.json'), line 57
resolvedConfigPath(argument) ==
  IF Truthy(argument) THEN argument.value ELSE configPath

\* Date.now() - startTime, in milliseconds, for a clock that does not run
\* backwards
Elapsed == {0, 1500}

\* the result of the catch blocks, lines 89-97 and 411-419
FailureResult(message, duration) ==
  [success |-> FALSE, output |-> "", error |-> message, duration |-> duration]

\* what buildContainer and startContainer make of the command's promise:
\* the result of lines 83-88 and 405-410 when it resolved, the result of
\* the catch block when it rejected; an undefined error is left out
BuildResultOf(promise, duration) ==
  IF promise.state = "resolved"
  THEN IF promise.value.exitCode # 0
       THEN [success |-> FALSE, output |-> promise.value.stdout,
             error |-> promise.value.stderr, duration |-> duration]
       ELSE [success |-> TRUE, output |-> promise.value.stdout,
             duration |-> duration]
  ELSE FailureResult(promise.message, duration)

\* lines 67-76 and 397-401: the arguments of the build and of the up command
CommandArgs(c) ==
  IF c.op = "buildContainer"
  THEN <<"@devcontainers/cli", "build", "--workspace-folder", "workspace">>
         \o (IF Truthy(c.configPath) THEN <<"--config", c.configPath.value>>
             ELSE <<>>)
         \o (IF c.rebuild THEN <<"--no-cache">> ELSE <<>>)
  ELSE <<"@devcontainers/cli", "up", "--workspace-folder", "workspace">>

\* buildContainer, lines 53-61: the configuration is looked for; without
\* one the call returns the failure of the catch block
BuildContainerBegin ==
  /\ pending # <<>>
  /\ Head(pending).op = "buildContainer"
  /\ LET c == Head(pending)
         path == resolvedConfigPath(c.configPath)
     IN  IF ~pathExists(FileAt(path))
         THEN /\ \E duration \in Elapsed :
                   done' = Append(done,
                     [call |-> c, commands |-> <<>>,
                      result |->
                        FailureResult("DevContainer configuration not found at "
                                        \o path, duration)])
              /\ UNCHANGED inflight
         ELSE /\ inflight' =
                   (NextId :> [call |-> c, pc |-> "validateCLI",
                               commands |-> <<>>]) @@ inflight
              /\ UNCHANGED done
  /\ pending' = Tail(pending)
  /\ UNCHANGED <<templates, disk>>

\* startContainer, lines 391-395
StartContainerBegin ==
  /\ pending # <<>>
  /\ Head(pending).op = "startContainer"
  /\ inflight' =
       (NextId :> [call |-> Head(pending), pc |-> "validateCLI",
                   commands |-> <<>>]) @@ inflight
  /\ pending' = Tail(pending)
  /\ UNCHANGED <<templates, done, disk>>

\* validateCLI, lines 378-386, and what follows it in buildContainer and
\* startContainer: the version command runs; when it fails the call returns
\* the failure of the catch block, otherwise the command is spawned
ValidateCLI(id) ==
  /\ inflight[id].pc = "validateCLI"
  /\ LET c == inflight[id].call
         commands == Append(inflight[id].commands,
                            "npx @devcontainers/cli --version")
     IN  \E available \in BOOLEAN :
           IF ~available
           THEN /\ \E duration \in Elapsed :
                     done' = Append(done,
                       [call |-> c, commands |-> commands,
                        result |->
                          FailureResult(
                            "DevContainer CLI not found. Please install it with: npm install -g @devcontainers/cli",
                            duration)])
                /\ inflight' = Settled(id)
           ELSE /\ inflight' =
                     [inflight EXCEPT ![id] =
                        [call |-> c, pc |-> "executeCommand",
                         commands |->
                           Append(commands, Join(<<"npx">> \o CommandArgs(c), " ")),
                         exec |-> Spawned("npx", CommandArgs(c), 300000)]]
                /\ UNCHANGED done
  /\ UNCHANGED <<templates, pending, disk>>

\* buildContainer, lines 79-97, and startContainer, lines 397-419: the
\* command's promise has settled and the call returns; the command is kept
\* with the result
BuildResultReturn(id) ==
  /\ inflight[id].call.op \in {"buildContainer", "startContainer"}
  /\ inflight[id].pc = "executeCommand"
  /\ inflight[id].exec.promise.state # "pending"
  /\ \E duration \in Elapsed :
       done' = Append(done,
         [call |-> inflight[id].call, commands |-> inflight[id].commands,
          exec |-> inflight[id].exec,
          result |-> BuildResultOf(inflight[id].exec.promise, duration)])
  /\ inflight' = Settled(id)
  /\ UNCHANGED <<templates, pending, disk>>

\* getContainerStatus, lines 229-239
GetContainerStatusBegin ==
  /\ pending # <<>>
  /\ Head(pending).op = "getContainerStatus"
  /\ LET c == Head(pending)
         configExists == pathExists(disk)
     IN  IF ~configExists
         THEN /\ done' = Append(done,
                   [call |-> c,
                    result |-> [configExists |-> FALSE, isRunning |-> FALSE]])
              /\ UNCHANGED inflight
         ELSE /\ inflight' =
                   (NextId :> [call |-> c, pc |-> "readJson",
                               status |-> [configExists |-> TRUE,
                                           isRunning |-> FALSE,
                                           configPath |-> configPath]])
                     @@ inflight
              /\ UNCHANGED done
  /\ pending' = Tail(pending)
  /\ UNCHANGED <<templates, disk>>

\* config.image || 'Unknown', line 243
ImageOrUnknown(config) ==
  IF Has(config, "image") /\ config.image # "" THEN config.image ELSE "Unknown"

\* getContainerStatus, lines 240-253, up to the first command of
\* getContainerInfo (line 287): a configuration that cannot be read ends the
\* call with the status as it is
GetContainerStatusRead(id) ==
  /\ inflight[id].pc = "readJson"
  /\ inflight[id].call.op = "getContainerStatus"
  /\ LET read == readJson(disk)
     IN  IF Has(read, "error")
         THEN /\ done' = Append(done, [call |-> inflight[id].call,
                                       result |-> inflight[id].status])
              /\ inflight' = Settled(id)
         ELSE /\ inflight' =
                   [inflight EXCEPT ![id] =
                      [call |-> inflight[id].call, pc |-> "executeCommand",
                       stage |-> "read-configuration",
                       status |-> [k \in DOMAIN inflight[id].status \cup {"image"} |->
                                     IF k = "image" THEN ImageOrUnknown(read.value)
                                     ELSE inflight[id].status[k]],
                       exec |-> Spawned("npx",
                                  <<"@devcontainers/cli", "read-configuration",
                                    "--workspace-folder", "workspace">>, 10000)]]
              /\ UNCHANGED done
  /\ UNCHANGED <<templates, pending, disk>>

\* `devcontainer-${path.basename(workspaceRoot)}`, lines 306 and 311
containerName == "devcontainer-workspace"

\* lines 247-249: the status with what getContainerInfo returned; a name
\* that is undefined is left out
WithContainerInfo(status, info) ==
  LET running == [k \in DOMAIN status |->
                    IF k = "isRunning" THEN info.isRunning ELSE status[k]]
  IN  IF Has(info, "name") THEN Put(running, "containerName", info.name)
      ELSE running

\* getContainerInfo, lines 293-323, after its first command settled: the
\* second command is run when the first exited with 0; otherwise the
\* container counts as not running
GetContainerInfoRead(id) ==
  /\ inflight[id].call.op = "getContainerStatus"
  /\ inflight[id].pc = "executeCommand"
  /\ inflight[id].stage = "read-configuration"
  /\ inflight[id].exec.promise.state # "pending"
  /\ LET promise == inflight[id].exec.promise
     IN  IF promise.state = "resolved" /\ promise.value.exitCode = 0
         THEN /\ inflight' =
                   [inflight EXCEPT
                      ![id].stage = "exec",
                      ![id].exec =
                        Spawned("npx",
                          <<"@devcontainers/cli", "exec", "--workspace-folder",
                            "workspace", "--", "echo", "test">>, 5000)]
              /\ UNCHANGED done
         ELSE /\ done' = Append(done,
                   [call |-> inflight[id].call,
                    result |-> WithContainerInfo(inflight[id].status,
                                                 [isRunning |-> FALSE])])
              /\ inflight' = Settled(id)
  /\ UNCHANGED <<templates, pending, disk>>

\* getContainerInfo, lines 304-313, after its second command settled, and
\* the return of getContainerStatus
GetContainerInfoExec(id) ==
  /\ inflight[id].call.op = "getContainerStatus"
  /\ inflight[id].pc = "executeCommand"
  /\ inflight[id].stage = "exec"
  /\ inflight[id].exec.promise.state # "pending"
  /\ LET promise == inflight[id].exec.promise
         info == [isRunning |-> promise.state = "resolved"
                                  /\ promise.value.exitCode = 0,
                  name |-> containerName]
     IN  done' = Append(done,
           [call |-> inflight[id].call, exec |-> inflight[id].exec,
            result |-> WithContainerInfo(inflight[id].status, info)])
  /\ inflight' = Settled(id)
  /\ UNCHANGED <<templates, pending, disk>>

\* the calls of the manager: builds with the default, a custom, a missing
\* and an empty config path and with the rebuild flag, a start and a status
ManagerCalls ==
  {[op |-> "buildContainer", configPath |-> p, rebuild |-> FALSE] :
     p \in {NotGiven, Given(""), Given("workspace/custom.json"),
            Given("workspace/missing.json")}}
    \cup {[op |-> "buildContainer", configPath |-> NotGiven, rebuild |-> TRUE],
          [op |-> "startContainer"],
          [op |-> "getContainerStatus"]}

\* up to MaxManagerCalls calls of the manager, which may overlap
InitManager ==
  /\ templates = SeedTemplates
  /\ pending \in CallsUpTo(ManagerCalls, MaxManagerCalls)
  /\ done = <<>>
  /\ disk \in InitialFiles
  /\ inflight = NoCalls

NextManager ==
  \/ BuildContainerBegin
  \/ StartContainerBegin
  \/ GetContainerStatusBegin
  \/ \E id \in DOMAIN inflight : ValidateCLI(id)
  \/ \E id \in DOMAIN inflight : ChildClose(id)
  \/ \E id \in DOMAIN inflight : ChildError(id)
  \/ \E id \in DOMAIN inflight : Timeout(id)
  \/ \E id \in DOMAIN inflight : BuildResultReturn(id)
  \/ \E id \in DOMAIN inflight : GetContainerStatusRead(id)
  \/ \E id \in DOMAIN inflight : GetContainerInfoRead(id)
  \/ \E id \in DOMAIN inflight : GetContainerInfoExec(id)

SpecManager == InitManager /\ [][NextManager]_vars

\* command.split(' '), line 186
RECURSIVE Split(_, _)
Split(s, piece) ==
  IF s = "" THEN <<piece>>
  ELSE IF CharAt(s, 1) = " "
       THEN <<piece>> \o Split(SubSeq(s, 2, Len(s)), "")
       ELSE Split(SubSeq(s, 2, Len(s)), piece \o CharAt(s, 1))

\* the test cases pushed at lines 165-169 and 171-176
PassedCase(name, output) ==
  [name |-> name, success |-> TRUE, output |-> output]

FailedCase(name, message) ==
  [name |-> name, success |-> FALSE, output |-> "", error |-> message]

\* the first default test, lines 113-129, on the workspace's configuration
ConfigurationCase(file) ==
  IF ~pathExists(file)
  THEN FailedCase("Configuration exists",
                  "DevContainer configuration file not found")
  ELSE IF Has(readJson(file), "error")
  THEN FailedCase("Configuration exists",
                  "Invalid JSON in configuration: " \o readJson(file).error)
  ELSE PassedCase("Configuration exists", "Configuration file is valid JSON")

\* Math.round(duration / 1000), line 139
RoundedSeconds(duration) == (duration + 500) \div 1000

\* the second default test, lines 132-140, from the result of buildContainer
BuildCase(buildResult) ==
  IF ~buildResult.success
  THEN FailedCase("Container builds successfully",
                  "Build failed: " \o buildResult.error)
  ELSE PassedCase("Container builds successfully",
                  "Build completed in "
                    \o NumberToString(RoundedSeconds(buildResult.duration))
                    \o "s")

\* the third default test, lines 143-157, from the promise of its command
StartCase(promise) ==
  IF promise.state = "rejected"
  THEN FailedCase("Container can start", promise.message)
  ELSE IF promise.value.exitCode # 0
  THEN FailedCase("Container can start",
                  "Container failed to start: " \o promise.value.stderr)
  ELSE PassedCase("Container can start",
                  "Container started and executed command successfully")

\* a custom test, lines 183-202, from the promise of its command; an
\* undefined error is left out
CustomCase(index, command, promise) ==
  LET name == "Custom test " \o NumberToString(index) \o ": " \o command
  IN  IF promise.state = "rejected" THEN FailedCase(name, promise.message)
      ELSE IF promise.value.exitCode # 0
      THEN [name |-> name, success |-> FALSE,
            output |-> promise.value.stdout, error |-> promise.value.stderr]
      ELSE PassedCase(name, promise.value.stdout)

\* lines 207-215
TestResultOf(tests) ==
  LET passed == Len(SelectSeq(tests, LAMBDA t : t.success))
      total == Len(tests)
  IN  [success |-> passed = total,
       tests |-> tests,
       summary |-> NumberToString(passed) \o "/" \o NumberToString(total)
                     \o " tests passed"]

\* executeDevContainerCommand, lines 266-272: the arguments for a command
ExecArgs(command) ==
  <<"@devcontainers/cli", "exec", "--workspace-folder", "workspace", "--">>
    \o command

\* the custom commands of a call: none when the argument is left out
CustomCommands(c) ==
  IF c.customTestCommands.given THEN c.customTestCommands.value ELSE <<>>

\* a test run that gives up the remaining tests after a failed one
NextTestUntilFailure(tests, c) ==
  IF ~tests[Len(tests)].success THEN [stage |-> "return"]
  ELSE IF Len(tests) = 2
  THEN [stage |-> "start",
        args |-> ExecArgs(<<"echo", "Container started successfully">>)]
  ELSE IF Len(tests) - 2 <= Len(CustomCommands(c))
  THEN [stage |-> "custom", index |-> Len(tests) - 2,
        args |-> ExecArgs(Split(CustomCommands(c)[Len(tests) - 2], ""))]
  ELSE [stage |-> "return"]

\* what testContainer does once the second or a later test case is pushed:
\* the loops of lines 162-178 and 182-203 go on to the third default test
\* and then to the custom commands in their order, whatever the outcome of
\* the tests so far, and the summary follows the last of them
NextTest(tests, c) ==
  IF Len(tests) = 2
  THEN [stage |-> "start",
        args |-> ExecArgs(<<"echo", "Container started successfully">>)]
  ELSE IF Len(tests) - 2 <= Len(CustomCommands(c))
  THEN [stage |-> "custom", index |-> Len(tests) - 2,
        args |-> ExecArgs(Split(CustomCommands(c)[Len(tests) - 2], ""))]
  ELSE [stage |-> "return"]

\* call id of testContainer goes on after a test case was pushed: it runs
\* the command of the next test, or returns the result
TestContinues(id, c, tests) ==
  LET next == NextTest(tests, c)
  IN  IF next.stage = "return"
      THEN /\ done' = Append(done, [call |-> c, result |-> TestResultOf(tests)])
           /\ inflight' = Settled(id)
      ELSE /\ inflight' =
                (id :> [call |-> c, pc |-> "executeCommand",
                        stage |-> next.stage, tests |-> tests,
                        exec |-> Spawned("npx", next.args, 30000)])
                  @@ Settled(id)
           /\ UNCHANGED done

\* testContainer, lines 107-135: the first default test, and the
\* configuration check with which the buildContainer of the second begins
TestContainerBegin ==
  /\ pending # <<>>
  /\ Head(pending).op = "testContainer"
  /\ LET c == Head(pending)
         first == ConfigurationCase(disk)
     IN  IF ~pathExists(FileAt(resolvedConfigPath(NotGiven)))
         THEN \E duration \in Elapsed :
                TestContinues(NextId, c,
                  <<first,
                    BuildCase(FailureResult(
                      "DevContainer configuration not found at " \o configPath,
                      duration))>>)
         ELSE /\ inflight' =
                   (NextId :> [call |-> c, pc |-> "testValidateCLI",
                               tests |-> <<first>>]) @@ inflight
              /\ UNCHANGED done
  /\ pending' = Tail(pending)
  /\ UNCHANGED <<templates, disk>>

\* the validateCLI of the second test's buildContainer, line 64
TestValidateCLI(id) ==
  /\ inflight[id].pc = "testValidateCLI"
  /\ LET c == inflight[id].call
         tests == inflight[id].tests
     IN  \E available \in BOOLEAN :
           IF ~available
           THEN \E duration \in Elapsed :
                  TestContinues(id, c,
                    Append(tests,
                      BuildCase(FailureResult(
                        "DevContainer CLI not found. Please install it with: npm install -g @devcontainers/cli",
                        duration))))
           ELSE /\ inflight' =
                     [inflight EXCEPT ![id] =
                        [call |-> c, pc |-> "executeCommand", stage |-> "build",
                         tests |-> tests,
                         exec |->
                           Spawned("npx",
                             CommandArgs([op |-> "buildContainer",
                                          configPath |-> NotGiven,
                                          rebuild |-> FALSE]),
                             300000)]]
                /\ UNCHANGED done
  /\ UNCHANGED <<templates, pending, disk>>

\* the command of a test has settled: its test case is pushed, lines
\* 135-139, 147-156 and 184-201
TestCommandSettled(id) ==
  /\ inflight[id].call.op = "testContainer"
  /\ inflight[id].pc = "executeCommand"
  /\ inflight[id].exec.promise.state # "pending"
  /\ LET c == inflight[id].call
         tests == inflight[id].tests
         promise == inflight[id].exec.promise
         index == Len(tests) - 2
     IN  CASE inflight[id].stage = "build" ->
                \E duration \in Elapsed :
                  TestContinues(id, c,
                    Append(tests, BuildCase(BuildResultOf(promise, duration))))
           [] inflight[id].stage = "start" ->
                TestContinues(id, c, Append(tests, StartCase(promise)))
           [] inflight[id].stage = "custom" ->
                TestContinues(id, c,
                  Append(tests,
                         CustomCase(index, CustomCommands(c)[index], promise)))
  /\ UNCHANGED <<templates, pending, disk>>

\* the commands of the custom tests
CustomCommandInputs == {"echo test", "pwd"}

\* one testContainer call: without custom commands, or with up to
\* MaxCustomCommands of them
TestContainerCalls ==
  {[op |-> "testContainer", customTestCommands |-> a] :
     a \in {NotGiven}
             \cup {Given(l) : l \in SeqsUpTo(CustomCommandInputs, MaxCustomCommands)}}

InitTestContainer ==
  /\ templates = SeedTemplates
  /\ pending \in {<<c>> : c \in TestContainerCalls}
  /\ done = <<>>
  /\ disk \in InitialFiles
  /\ inflight = NoCalls

NextTestContainer ==
  \/ TestContainerBegin
  \/ \E id \in DOMAIN inflight : TestValidateCLI(id)
  \/ \E id \in DOMAIN inflight : ChildClose(id)
  \/ \E id \in DOMAIN inflight : ChildError(id)
  \/ \E id \in DOMAIN inflight : Timeout(id)
  \/ \E id \in DOMAIN inflight : TestCommandSettled(id)

SpecTestContainer == InitTestContainer /\ [][NextTestContainer]_vars

(***************************************************************************)
(* The MCP server: src/src/index.ts, the CallTool handler (lines 169-206)  *)
(* and the tool handlers (lines 209-430). A response's text is cut after   *)
(* its first line, without the leading symbol.                             *)
(***************************************************************************)
\* { content: [{ type: 'text', text }] }
ToolResponse(text) == [content |-> <<[type |-> "text", text |-> text]>>]

\* what a tool handler ends with: a response it returns, or an error it
\* throws
Returns(response) == [returned |-> response]

Throws(message) == [thrown |-> message]

\* the CallTool handler without its try/catch: an error goes on to the
\* caller
Uncaught(name, outcome) ==
  IF Has(outcome, "thrown") THEN outcome ELSE outcome.returned

\* lines 172-205: the response of the tool handler, or the response the
\* catch block makes of the error thrown
Caught(name, outcome) ==
  IF Has(outcome, "thrown")
  THEN ToolResponse("Error executing " \o name \o ": " \o outcome.thrown)
  ELSE outcome.returned

\* args || {}, lines 175-190
ArgsOrEmpty(arguments) ==
  IF arguments.given THEN arguments.value ELSE EmptyObject

\* args.key, undefined when the object has no such key
Argument(args, key) == IF Has(args, key) THEN Given(args[key]) ELSE NotGiven

\* the tool names of the switch, lines 174-190
ToolNames ==
  {"generate_devcontainer", "build_devcontainer", "test_devcontainer",
   "list_templates", "modify_devcontainer", "get_devcontainer_status"}

\* handleListTemplates, lines 327-357; the calls of getTemplates and
\* getCategories, whose lists come after the first line, throw nothing
handleListTemplates(args) ==
  LET category == Argument(args, "category")
  IN  Returns(ToolResponse(
        "Available DevContainer Templates "
          \o (IF Truthy(category) THEN "(" \o category.value \o ")" ELSE "")))

\* the promises a command of the manager settles with
SettledPromises ==
  {Resolved([exitCode |-> 0, stdout |-> "", stderr |-> ""]),
   Resolved([exitCode |-> 1, stdout |-> "", stderr |-> "build error"]),
   Rejected("Command timed out after 300000ms")}

\* the results the three manager tools may get from the manager for the
\* workspace's file, by the outcomes of its commands
ManagerResults(name, file) ==
  CASE name = "build_devcontainer" ->
         IF ~pathExists(file)
         THEN {FailureResult("DevContainer configuration not found at "
                               \o configPath, 0)}
         ELSE {BuildResultOf(p, d) : p \in SettledPromises, d \in Elapsed}
    [] name = "test_devcontainer" ->
         IF ~pathExists(file)
         THEN {TestResultOf(
                 <<ConfigurationCase(file),
                   BuildCase(FailureResult(
                     "DevContainer configuration not found at " \o configPath, 0)),
                   StartCase(p)>>) : p \in SettledPromises}
         ELSE {TestResultOf(
                 <<ConfigurationCase(file), BuildCase(BuildResultOf(p, 0)),
                   StartCase(p)>>) : p \in SettledPromises}
    [] name = "get_devcontainer_status" ->
         IF ~pathExists(file)
         THEN {[configExists |-> FALSE, isRunning |-> FALSE]}
         ELSE IF Has(readJson(file), "error")
         THEN {[configExists |-> TRUE, isRunning |-> FALSE,
                configPath |-> configPath]}
         ELSE {WithContainerInfo(
                 [configExists |-> TRUE, isRunning |-> FALSE,
                  configPath |-> configPath,
                  image |-> ImageOrUnknown(readJson(file).value)],
                 [isRunning |-> running, name |-> containerName]) :
                 running \in BOOLEAN}

\* the responses of handleBuildDevContainer (lines 255-292),
\* handleTestDevContainer (lines 308-324) and handleGetDevContainerStatus
\* (lines 401-430) for a result of the manager
ManagerResponse(name, result) ==
  CASE name = "build_devcontainer" ->
         IF result.success
         THEN ToolResponse("DevContainer built successfully in "
                \o NumberToString(RoundedSeconds(result.duration)) \o "s!")
         ELSE ToolResponse("DevContainer build failed after "
                \o NumberToString(RoundedSeconds(result.duration)) \o "s")
    [] name = "test_devcontainer" ->
         ToolResponse("DevContainer Tests Complete")
    [] name = "get_devcontainer_status" ->
         ToolResponse("DevContainer Status: "
           \o (IF result.configExists
               THEN (IF result.isRunning THEN "Running" ELSE "Stopped")
               ELSE "Not configured"))

\* the request at the head of pending is answered at once
Responds(response) ==
  /\ done' = Append(done, [call |-> Head(pending), response |-> response])
  /\ UNCHANGED <<templates, disk, inflight>>

\* the request at the head of pending waits for the engine or the manager
Awaits(record) ==
  /\ inflight' = (NextId :> ([call |-> Head(pending)] @@ record)) @@ inflight
  /\ UNCHANGED done

\* the CallTool handler up to the first await of its tool handler: the
\* switch (lines 173-194), the argument checks (lines 214-216, 363-365)
\* and, for generate and modify, the engine's steps before its first await
\* (generateFromPrompt lines 45-64, modifyConfiguration lines 345-349)
CallToolBegin ==
  /\ pending # <<>>
  /\ Head(pending).op = "CallTool"
  /\ LET name == Head(pending).name
         args == ArgsOrEmpty(Head(pending).arguments)
     IN  CASE name = "generate_devcontainer" ->
                LET prompt == Argument(args, "prompt")
                    baseTemplate == Argument(args, "baseTemplate")
                IN  IF ~Truthy(prompt)
                    THEN Responds(Caught(name, Throws("Prompt is required")))
                    ELSE LET analysis == analyzePrompt(prompt.value)
                             chosen == ChooseTemplate(templates, baseTemplate,
                                                      analysis)
                         IN  IF Has(chosen, "error")
                             THEN Responds(Caught(name, Throws(chosen.error)))
                             ELSE /\ Awaits([pc |-> "writeJson",
                                             config |->
                                               generateConfig(chosen.template,
                                                              analysis)])
                                  /\ UNCHANGED <<templates, disk>>
           [] name = "modify_devcontainer" ->
                LET modifications == Argument(args, "modifications")
                IN  IF ~Truthy(modifications)
                    THEN Responds(Caught(name,
                           Throws("Modifications description is required")))
                    ELSE IF ~pathExists(disk)
                    THEN Responds(Caught(name,
                           Throws("No existing devcontainer.json found")))
                    ELSE /\ Awaits([pc |-> "readJson",
                                    modifications |-> modifications.value])
                         /\ UNCHANGED <<templates, disk>>
           [] name = "list_templates" ->
                Responds(Caught(name, handleListTemplates(args)))
           [] name \in {"build_devcontainer", "test_devcontainer",
                        "get_devcontainer_status"} ->
                /\ Awaits([pc |-> "manager"])
                /\ UNCHANGED <<templates, disk>>
           [] OTHER ->
                Responds(Caught(name, Throws("Unknown tool: " \o name)))
  /\ pending' = Tail(pending)

\* modify_devcontainer: the engine reads and merges, modifyConfiguration
\* lines 352-358; a read that throws is answered by the catch block
CallToolRead(id) ==
  /\ inflight[id].call.op = "CallTool"
  /\ inflight[id].pc = "readJson"
  /\ LET read == readJson(disk)
     IN  IF Has(read, "error")
         THEN /\ done' = Append(done,
                   [call |-> inflight[id].call,
                    response |-> Caught(inflight[id].call.name,
                                        Throws(read.error))])
              /\ inflight' = Settled(id)
         ELSE /\ inflight' =
                   [inflight EXCEPT ![id] =
                      [call |-> inflight[id].call, pc |-> "writeJson",
                       config |->
                         applyModifications(read.value,
                           analyzePrompt(inflight[id].modifications))]]
              /\ UNCHANGED done
  /\ UNCHANGED <<templates, pending, disk>>

\* generate_devcontainer and modify_devcontainer: the engine writes the
\* document (generateFromPrompt line 71, modifyConfiguration line 361) and
\* the tool handler returns its response, lines 220-245 and 369-393
CallToolWrite(id) ==
  /\ inflight[id].call.op = "CallTool"
  /\ inflight[id].pc = "writeJson"
  /\ disk' = writeJson(inflight[id].config)
  /\ done' = Append(done,
       [call |-> inflight[id].call,
        response |->
          Caught(inflight[id].call.name,
            Returns(ToolResponse(
              IF inflight[id].call.name = "generate_devcontainer"
              THEN "DevContainer configuration generated successfully!"
              ELSE "DevContainer configuration modified successfully!")))])
  /\ inflight' = Settled(id)
  /\ UNCHANGED <<templates, pending>>

\* build_devcontainer, test_devcontainer and get_devcontainer_status: the
\* manager's call has returned and the tool handler returns its response
CallToolManager(id) ==
  /\ inflight[id].call.op = "CallTool"
  /\ inflight[id].pc = "manager"
  /\ \E result \in ManagerResults(inflight[id].call.name, disk) :
       done' = Append(done,
         [call |-> inflight[id].call,
          response |-> Caught(inflight[id].call.name,
                         Returns(ManagerResponse(inflight[id].call.name,
                                                 result)))])
  /\ inflight' = Settled(id)
  /\ UNCHANGED <<templates, pending, disk>>

\* the CallTool requests of a client: every tool, with and without its
\* required argument, with arguments the engine rejects, without an
\* arguments object, and a tool the server does not have
CallToolRequests ==
  {[op |-> "CallTool", name |-> "generate_devcontainer", arguments |-> a] :
     a \in {NotGiven, Given([prompt |-> ""]),
            Given([prompt |-> "python django"]),
            Given([prompt |-> "go 3005", baseTemplate |-> "non-existent"])}}
    \cup {[op |-> "CallTool", name |-> "modify_devcontainer", arguments |-> a] :
            a \in {Given(EmptyObject), Given([modifications |-> "port 8080"])}}
    \cup {[op |-> "CallTool", name |-> "list_templates",
           arguments |-> Given([category |-> "frontend"])],
          [op |-> "CallTool", name |-> "build_devcontainer",
           arguments |-> Given(EmptyObject)],
          [op |-> "CallTool", name |-> "test_devcontainer",
           arguments |-> NotGiven],
          [op |-> "CallTool", name |-> "get_devcontainer_status",
           arguments |-> Given(EmptyObject)],
          [op |-> "CallTool", name |-> "delete_devcontainer",
           arguments |-> Given(EmptyObject)]}

\* a client sends up to MaxRequests requests, which the server may handle
\* side by side
InitServer ==
  /\ templates = SeedTemplates
  /\ pending \in CallsUpTo(CallToolRequests, MaxRequests)
  /\ done = <<>>
  /\ disk \in InitialFiles
  /\ inflight = NoCalls

NextServer ==
  \/ CallToolBegin
  \/ \E id \in DOMAIN inflight : CallToolRead(id)
  \/ \E id \in DOMAIN inflight : CallToolWrite(id)
  \/ \E id \in DOMAIN inflight : CallToolManager(id)

SpecServer == InitServer /\ [][NextServer]_vars

(***************************************************************************)
(* Repeated analyses, catalog queries and mixed sessions.                  *)
(***************************************************************************)
\* texts analysed again and again: two without any match, and three with
\* tags, ports and an operating system
RepeatedTexts ==
  {"", "Add some features", "port 8080", "Alpine ts js 3005",
   "debian docker redis"}

\* up to MaxAnalyses calls of analyzePrompt in a row, as the calls of
\* generateFromPrompt and modifyConfiguration make them
InitRepeat ==
  /\ templates = SeedTemplates
  /\ pending \in CallsUpTo({[op |-> "analyzePrompt", prompt |-> t] :
                             t \in RepeatedTexts}, MaxAnalyses)
  /\ done = <<>>
  /\ disk = NoFile
  /\ inflight = NoCalls

NextRepeat == AnalyzePrompt

SpecRepeat == InitRepeat /\ [][NextRepeat]_vars

\* a client calls templateManager.getAllTemplates()
GetAllTemplates ==
  /\ pending # <<>>
  /\ Head(pending).op = "getAllTemplates"
  /\ done' = Append(done,
       [call |-> Head(pending), result |-> getAllTemplates(templates)])
  /\ pending' = Tail(pending)
  /\ UNCHANGED <<templates, disk, inflight>>

\* a client calls templateManager.getTemplates(filter)
GetTemplates ==
  /\ pending # <<>>
  /\ Head(pending).op = "getTemplates"
  /\ done' = Append(done,
       [call |-> Head(pending),
        result |-> getTemplates(templates, Head(pending).filter)])
  /\ pending' = Tail(pending)
  /\ UNCHANGED <<templates, disk, inflight>>

\* a client calls templateManager.getTemplate(name)
GetTemplate ==
  /\ pending # <<>>
  /\ Head(pending).op = "getTemplate"
  /\ done' = Append(done,
       [call |-> Head(pending),
        result |-> getTemplate(templates, Head(pending).name)])
  /\ pending' = Tail(pending)
  /\ UNCHANGED <<templates, disk, inflight>>

\* a client calls templateManager.getCategories()
GetCategories ==
  /\ pending # <<>>
  /\ Head(pending).op = "getCategories"
  /\ done' = Append(done,
       [call |-> Head(pending), result |-> getCategories(templates)])
  /\ pending' = Tail(pending)
  /\ UNCHANGED <<templates, disk, inflight>>

\* the values a filter key takes: the key left out, the empty string, and
\* strings that some, one or no template has
CategoryInputs == {NotGiven, Given(""), Given("backend"), Given("frontend"),
                   Given("non-existent")}

LanguageFilterInputs == {NotGiven, Given(""), Given("javascript"),
                         Given("python"), Given("cobol")}

FrameworkFilterInputs == {NotGiven, Given(""), Given("react"), Given("django")}

\* the object literal with the keys that are given
FilterObject(category, language, framework) ==
  [k \in (IF category.given THEN {"category"} ELSE {})
           \cup (IF language.given THEN {"language"} ELSE {})
           \cup (IF framework.given THEN {"framework"} ELSE {}) |->
     CASE k = "category" -> category.value
       [] k = "language" -> language.value
       [] k = "framework" -> framework.value]

GetTemplatesCalls ==
  {[op |-> "getTemplates", filter |-> NotGiven]}
    \cup {[op |-> "getTemplates",
           filter |-> Given(FilterObject(c, l, f))] :
            c \in CategoryInputs, l \in LanguageFilterInputs,
            f \in FrameworkFilterInputs}

\* one getTemplates call
InitList ==
  /\ templates = SeedTemplates
  /\ pending \in {<<c>> : c \in GetTemplatesCalls}
  /\ done = <<>>
  /\ disk = NoFile
  /\ inflight = NoCalls

NextList == GetTemplates

SpecList == InitList /\ [][NextList]_vars

\* calls of every operation that reads the catalog
CatalogCalls ==
  {[op |-> "getAllTemplates"],
   [op |-> "getTemplates", filter |-> Given([category |-> "backend"])],
   [op |-> "getTemplate", name |-> "python"],
   [op |-> "getCategories"],
   [op |-> "findBestMatch", languages |-> <<"python">>,
    frameworks |-> <<"django">>],
   [op |-> "generateFromPrompt", prompt |-> "python django",
    baseTemplate |-> NotGiven],
   [op |-> "generateFromPrompt", prompt |-> "go 3005",
    baseTemplate |-> Given("rust")],
   [op |-> "modifyConfiguration", modifications |-> "port 8080"],
   [op |-> "modifyConfiguration", modifications |-> "TypeScript React"]}

\* a client makes up to MaxCalls calls of any kind
InitCatalog ==
  /\ templates = SeedTemplates
  /\ pending \in CallsUpTo(CatalogCalls, MaxCalls)
  /\ done = <<>>
  /\ disk \in {NoFile, JsonFile(PortsDocument)}
  /\ inflight = NoCalls

NextCatalog ==
  \/ GetAllTemplates
  \/ GetTemplates
  \/ GetTemplate
  \/ GetCategories
  \/ FindBestMatch
  \/ NextWorkspace

SpecCatalog == InitCatalog /\ [][NextCatalog]_vars

(***************************************************************************)
(* Template selection: claims C1-C4, checked under SpecSelect.             *)
(***************************************************************************)
\* the name of a returned template, "null" for a null result
NameOf(r) == IF r = Null THEN "null" ELSE r.name

\* how many entries of an input list, lower-cased, are among a template's tags
MatchCount(inputs, tags) ==
  Cardinality({i \in 1..Len(inputs) : toLowerCase(inputs[i]) \in Elems(tags)})

\* the raw score of catalog entry i for a findBestMatch call c
RawScore(i, c) ==
  10 * MatchCount(c.languages, templates[i].languages)
    + 5 * MatchCount(c.frameworks, templates[i].frameworks)

\* the adjusted score: the raw score, less 1 for the template named universal
AdjustedScore(i, c) ==
  RawScore(i, c) - (IF templates[i].name = "universal" THEN 1 ELSE 0)

Catalog == 1..Len(templates)

\* C1: when some template has an adjusted score above zero, findBestMatch
\* returns the template with the highest adjusted score, and among templates
\* tied for the highest score the one that comes first in catalog order.
C1_HighestScoreFirstInCatalog ==
  Returned("findBestMatch") =>
    LET c == Last.call
    IN  (\E i \in Catalog : AdjustedScore(i, c) > 0) =>
          \E i \in Catalog :
            /\ Last.result = templates[i]
            /\ \A j \in Catalog : AdjustedScore(j, c) <= AdjustedScore(i, c)
            /\ \A j \in 1..(i - 1) : AdjustedScore(j, c) < AdjustedScore(i, c)

\* C1's case: ['go'], [] gives 'go', which 'docker-compose' ties at 10
C1_Witness ==
  /\ Returned("findBestMatch")
  /\ Last.call.languages = <<"go">>
  /\ Last.call.frameworks = <<>>
  /\ NameOf(Last.result) = "go"
  /\ \E i, j \in Catalog :
       /\ templates[i].name = "go"
       /\ templates[j].name = "docker-compose"
       /\ AdjustedScore(i, Last.call) = AdjustedScore(j, Last.call)

\* C2: findBestMatch never returns null, and when no template matches any
\* input language or framework it returns the template named universal.
C2_NeverNullFallbackUniversal ==
  Returned("findBestMatch") =>
    /\ Last.result # Null
    /\ (\A i \in Catalog : RawScore(i, Last.call) = 0) =>
         NameOf(Last.result) = "universal"

\* C2's case: unknown tags only, and the two empty lists
C2_Witness ==
  /\ Returned("findBestMatch")
  /\ Last.call.languages = <<"cobol">>
  /\ Last.call.frameworks = <<"htmx">>
  /\ \A i \in Catalog : RawScore(i, Last.call) = 0
  /\ NameOf(Last.result) = "universal"

\* C3: whenever a template other than universal has a positive raw score at
\* least as large as universal's raw score, universal is not returned.
C3_SpecificPreferredOverUniversal ==
  Returned("findBestMatch") =>
    LET c == Last.call
    IN  (\E i, u \in Catalog :
           /\ templates[u].name = "universal"
           /\ templates[i].name # "universal"
           /\ RawScore(i, c) > 0
           /\ RawScore(i, c) >= RawScore(u, c)) =>
          NameOf(Last.result) # "universal"

\* C3's case: a language that universal lists too, raw scores tied at 10
C3_Witness ==
  /\ Returned("findBestMatch")
  /\ Last.call.languages = <<"Rust">>
  /\ Last.call.frameworks = <<>>
  /\ \E i, u \in Catalog :
       /\ templates[u].name = "universal"
       /\ templates[i].name = "rust"
       /\ RawScore(i, Last.call) = RawScore(u, Last.call)
  /\ NameOf(Last.result) = "rust"

\* whether a template lists at least one of the call's input languages
MatchesLanguage(t, c) == MatchCount(c.languages, t.languages) > 0

\* C4 as stated: whenever some template matches an input language, the
\* returned template matches at least one input language.
C4_LanguageMatchAlwaysWins ==
  Returned("findBestMatch") =>
    ((\E i \in Catalog : MatchesLanguage(templates[i], Last.call)) =>
       (Last.result # Null /\ MatchesLanguage(Last.result, Last.call)))

\* C4 amended: whenever some template matches an input language, the
\* returned template matches an input language or at least two entries of
\* the input frameworks (two framework matches weigh as much as a language).
C4_LanguageOrTwoFrameworks ==
  Returned("findBestMatch") =>
    ((\E i \in Catalog : MatchesLanguage(templates[i], Last.call)) =>
       /\ Last.result # Null
       /\ \/ MatchesLanguage(Last.result, Last.call)
          \/ MatchCount(Last.call.frameworks, Last.result.frameworks) >= 2)

\* C4's case: a language match (java) against two framework matches (rust)
C4_Witness ==
  /\ Returned("findBestMatch")
  /\ Last.call.languages = <<"java">>
  /\ Last.call.frameworks = <<"actix", "rocket">>
  /\ NameOf(Last.result) = "rust"

(***************************************************************************)
(* Feature extraction: claims C5-C6, checked under SpecExtract.            *)
(***************************************************************************)
\* whether a word or a number of s starts at i / ends at k
StartsToken(s, i) == i = 1 \/ ~IsWordChar(CharAt(s, i - 1))

EndsToken(s, k) == k = Len(s) \/ ~IsWordChar(CharAt(s, k + 1))

AllDigits(s, j, k) == \A p \in j..k : CharAt(s, p) \in Digits

AllSpaces(s, j, k) == \A p \in j..k : CharAt(s, p) \in {" ", "\t", "\n"}

Pow10 == <<1, 10, 100, 1000, 10000>>

\* the number the digits s[j..k] write: leading zeros do not count, and a
\* number of more than five significant digits is reported as 100000 (it
\* is outside both port ranges whatever it is)
NumberWritten(s, j, k) ==
  LET significant == {p \in j..k : \E q \in j..p : CharAt(s, q) # "0"}
      place(p) == Pow10[k - p + 1]
      RECURSIVE Sum(_)
      Sum(P) == IF P = {} THEN 0
                ELSE LET p == CHOOSE q \in P : TRUE
                     IN  DigitValue[CharAt(s, p)] * place(p) + Sum(P \ {p})
  IN  IF Cardinality(significant) > 5 THEN 100000 ELSE Sum(significant)

\* (a) the numbers written after the word "port", in any case, separated
\* from it by whitespace
NumbersAfterPort(s) ==
  {NumberWritten(s, j, k) : <<j, k>> \in
     {<<j, k>> \in (1..Len(s)) \X (1..Len(s)) :
        /\ j <= k
        /\ AllDigits(s, j, k)
        /\ EndsToken(s, k)
        /\ \E i \in 1..Len(s) :
             /\ StartsToken(s, i)
             /\ i + 4 < j
             /\ toLowerCase(SubSeq(s, i, i + 3)) = "port"
             /\ AllSpaces(s, i + 4, j - 1)}}

\* (b) the stand-alone numbers of 4 or 5 digits
StandaloneNumbers(s) ==
  {NumberWritten(s, j, k) : <<j, k>> \in
     {<<j, k>> \in (1..Len(s)) \X (1..Len(s)) :
        /\ k - j + 1 \in {4, 5}
        /\ AllDigits(s, j, k)
        /\ StartsToken(s, j)
        /\ EndsToken(s, k)}}

PortsClaimed(s) ==
  {n \in NumbersAfterPort(s) : 1 <= n /\ n <= 65535}
    \cup {n \in StandaloneNumbers(s) : 3000 <= n /\ n <= 9999}

\* C5: the extracted port set is exactly the union of (a) every number n
\* written after the word 'port' with 1 <= n <= 65535 and (b) every
\* stand-alone number of 4 or 5 digits n with 3000 <= n <= 9999; 'port 8080'
\* and a bare '3005' are included, a bare '50', a bare '99999', 'port 0' and
\* 'port 70000' are not.
C5_PortsAreTheTwoPasses ==
  Returned("analyzePrompt") =>
    LET s == Last.call.prompt
        ports == Elems(Last.result.ports)
    IN  /\ ports = PortsClaimed(s)
        /\ s = "port 8080" => ports = {8080}
        /\ s = "3005" => ports = {3005}
        /\ s \in {"50", "99999", "port 0", "port 70000"} => ports = {}

\* C5's case: a number after 'port' that the stand-alone pass would not take
C5_Witness ==
  /\ Returned("analyzePrompt")
  /\ Last.call.prompt = "PORT 50"
  /\ Last.result.ports = <<50>>
  /\ StandaloneNumbers(Last.call.prompt) = {}

\* C6: in every feature set analyzePrompt produces, languages, frameworks,
\* databases, tools, ports and extensions hold no element twice, and every
\* port is an integer in [1, 65535].
C6_FeatureSetInvariant ==
  Returned("analyzePrompt") =>
    LET a == Last.result
    IN  /\ NoDuplicates(a.languages)
        /\ NoDuplicates(a.frameworks)
        /\ NoDuplicates(a.databases)
        /\ NoDuplicates(a.tools)
        /\ NoDuplicates(a.ports)
        /\ NoDuplicates(a.extensions)
        /\ \A i \in 1..Len(a.ports) :
             a.ports[i] \in Int /\ 1 <= a.ports[i] /\ a.ports[i] <= 65535

\* C6's case: a port that both passes find
C6_Witness ==
  /\ Returned("analyzePrompt")
  /\ Last.call.prompt = "port 3005"
  /\ ExplicitPorts(Last.call.prompt) = <<3005>>
  /\ StandalonePorts(Last.call.prompt) = <<3005>>
  /\ Last.result.ports = <<3005>>

(***************************************************************************)
(* Build and modify: claims C7-C10. C7 is checked under SpecBuild, the     *)
(* others under SpecMerge.                                                 *)
(***************************************************************************)
\* the keys of a document's features block, none when it has no block
FeatureKeys(doc) == IF Has(doc, "features") THEN DOMAIN doc.features ELSE {}

\* a document's forwarded ports, none when it has no list
ForwardedPorts(doc) == Elems(ListOrEmpty(doc, "forwardPorts"))

\* a document's editor extensions, none when it has no list
EditorExtensions(doc) ==
  IF /\ Has(doc, "customizations")
     /\ Has(doc.customizations, "vscode")
     /\ Has(doc.customizations.vscode, "extensions")
  THEN Elems(doc.customizations.vscode.extensions)
  ELSE {}

\* the fixed identifier of every supported database and tool tag
SupportedDatabaseFeature ==
  [postgresql |-> "ghcr.io/devcontainers/features/postgres:1",
   mongodb |-> "ghcr.io/devcontainers/features/mongo:1",
   redis |-> "ghcr.io/devcontainers/features/redis:1"]

SupportedToolFeature ==
  [docker |-> "ghcr.io/devcontainers/features/docker-in-docker:2",
   git |-> "ghcr.io/devcontainers/features/git:1"]

\* the feature identifiers a feature set asks for
RequestedFeatures(f) ==
  {SupportedDatabaseFeature[t] :
     t \in Elems(f.databases) \cap DOMAIN SupportedDatabaseFeature}
    \cup {SupportedToolFeature[t] :
            t \in Elems(f.tools) \cap DOMAIN SupportedToolFeature}

\* the catalog's initial configuration of the template with a name
SeedConfig(name) == SeedTemplates[IndexOf(SeedTemplates, name)].config

\* C7: after generateConfig(template, f1) followed by generateConfig(template,
\* f2), the stored descriptor's config is identical to its initial value, and
\* the second result contains no port, extension or feature key of f1 that is
\* not also in the template or in f2.
C7_BuildLeavesCatalogAndLeaksNothing ==
  /\ templates = SeedTemplates
  /\ Len(done) = 2 =>
       LET f1 == done[1].call.analysis
           f2 == done[2].call.analysis
           seed == SeedConfig(done[2].call.template)
           second == done[2].result
       IN  /\ ForwardedPorts(second) \cap Elems(f1.ports)
                \subseteq ForwardedPorts(seed) \cup Elems(f2.ports)
           /\ EditorExtensions(second) \cap Elems(f1.extensions)
                \subseteq EditorExtensions(seed) \cup Elems(f2.extensions)
           /\ FeatureKeys(second) \cap RequestedFeatures(f1)
                \subseteq FeatureKeys(seed) \cup RequestedFeatures(f2)

\* C7's case: the first build added a port, extensions and a name that the
\* template and the second feature set lack
C7_Witness ==
  /\ Len(done) = 2
  /\ done[1].call.template = "python"
  /\ done[1].call.analysis.originalPrompt = "go gin"
  /\ done[2].call.analysis.originalPrompt = "postgres"
  /\ "golang.go" \in EditorExtensions(done[1].result)
  /\ "golang.go" \notin EditorExtensions(done[2].result)
  /\ templates[IndexOf(templates, "python")].config = SeedConfig("python")

IsMerge == Returned("generateConfig") \/ Returned("applyModifications")

\* C8 as stated: the result of modify, and of build, has a forwardPorts list
\* whose values are those of the base document united with F.ports, and the
\* list contains no value twice.
C8_AlwaysADuplicateFreePortList ==
  IsMerge =>
    /\ Has(Last.result, "forwardPorts")
    /\ ForwardedPorts(Last.result)
         = ForwardedPorts(Last.base) \cup Elems(Last.call.analysis.ports)
    /\ NoDuplicates(Last.result.forwardPorts)

\* C8 amended: the values of the result's forwardPorts (none when absent)
\* are those of the base document united with F.ports. When F.ports is
\* non-empty the result has a forwardPorts list with no value twice; when it
\* is empty, modify leaves forwardPorts exactly as it is in D. Build always
\* yields a forwardPorts list with no value twice.
C8_PortsMergedWhenRequested ==
  IsMerge =>
    LET ports == Last.call.analysis.ports
    IN  /\ ForwardedPorts(Last.result)
             = ForwardedPorts(Last.base) \cup Elems(ports)
        /\ (ports # <<>> \/ Returned("generateConfig")) =>
             /\ Has(Last.result, "forwardPorts")
             /\ NoDuplicates(Last.result.forwardPorts)
        /\ (ports = <<>> /\ Returned("applyModifications")) =>
             /\ Has(Last.result, "forwardPorts") = Has(Last.base, "forwardPorts")
             /\ ListOrEmpty(Last.result, "forwardPorts")
                  = ListOrEmpty(Last.base, "forwardPorts")

\* C8's case: forwardPorts [3000] and F.ports = {8080} merge to {3000, 8080}
C8_Witness ==
  /\ Returned("applyModifications")
  /\ Last.base = PortsDocument
  /\ Last.call.analysis.ports = <<8080>>
  /\ Last.result.forwardPorts = <<3000, 8080>>

\* C9: in build and in modify, the keys of the result's features block are
\* the keys already in the base document plus exactly the fixed identifiers
\* of the supported tags in the feature set; a database or tool tag outside
\* that set adds no entry.
C9_FeatureKeysAreBasePlusSupported ==
  IsMerge =>
    FeatureKeys(Last.result)
      = FeatureKeys(Last.base) \cup RequestedFeatures(Last.call.analysis)

\* C9's case: a supported and an unsupported database tag together
C9_Witness ==
  /\ Returned("applyModifications")
  /\ Last.base = ImageOnlyDocument
  /\ Last.call.analysis.databases = <<"postgresql", "mysql">>
  /\ FeatureKeys(Last.result) = {"ghcr.io/devcontainers/features/postgres:1"}

\* a tag with its first letter upper-cased
TitleOf(tag) ==
  (IF CharAt(tag, 1) \in DOMAIN UpperOf THEN UpperOf[CharAt(tag, 1)]
   ELSE CharAt(tag, 1)) \o SubSeq(tag, 2, Len(tag))

\* the name the claim gives a build with the tags, languages first
NameClaimed(tags) ==
  CASE Len(tags) = 1 -> TitleOf(tags[1]) \o " Development"
    [] Len(tags) = 2 ->
         TitleOf(tags[1]) \o " & " \o TitleOf(tags[2]) \o " Development"
    [] Len(tags) >= 3 ->
         TitleOf(tags[1]) \o " & " \o TitleOf(tags[2]) \o " & "
           \o TitleOf(tags[3]) \o " Development"

\* C10: build overwrites the name exactly when languages or frameworks is
\* non-empty; the new name is the first three tags of languages followed by
\* frameworks, each with its first letter upper-cased, joined by ' & ' and
\* followed by ' Development'; otherwise the template's own name is kept.
C10_BuildNamesTheStack ==
  Returned("generateConfig") =>
    LET f == Last.call.analysis
        tags == f.languages \o f.frameworks
    IN  IF tags = <<>>
        THEN Last.result.name = SeedConfig(Last.call.template).name
        ELSE Last.result.name = NameClaimed(tags)

\* C10's case: four tags, of which the first three name the document
C10_Witness ==
  /\ Returned("generateConfig")
  /\ Last.call.analysis.languages = <<"typescript", "go">>
  /\ Last.call.analysis.frameworks = <<"react", "gin">>
  /\ Last.result.name = "Typescript & Go & React Development"


(***************************************************************************)
(* Frame of the merge and build / modify agreement: claims C11-C12,        *)
(* checked under SpecMerge.                                                *)
(***************************************************************************)
\* obj[key], or the empty object when the key is absent
ObjectOrEmpty(obj, key) == IF Has(obj, key) THEN obj[key] ELSE EmptyObject

\* every key of before outside targets is in after with the same value, and
\* after has no key that before lacks, except possibly those in targets
SameOutside(before, after, targets) ==
  /\ DOMAIN after \subseteq DOMAIN before \cup targets
  /\ \A k \in DOMAIN before \ targets : k \in DOMAIN after /\ after[k] = before[k]

\* below customizations nothing changes but vscode.extensions: a
\* customizations or vscode object that is there stays, with its other
\* keys as they are, and one that is new only holds the extensions list
CustomizationsKept(before, after) ==
  LET bc == ObjectOrEmpty(before, "customizations")
      ac == ObjectOrEmpty(after, "customizations")
      bv == ObjectOrEmpty(bc, "vscode")
      av == ObjectOrEmpty(ac, "vscode")
  IN  /\ Has(before, "customizations") => Has(after, "customizations")
      /\ Has(bc, "vscode") => Has(ac, "vscode")
      /\ SameOutside(bc, ac, {"vscode"})
      /\ SameOutside(bv, av, {"extensions"})
      /\ (Has(after, "customizations") /\ ~Has(before, "customizations"))
            => Has(ac, "vscode")
      /\ (Has(ac, "vscode") /\ ~Has(bc, "vscode")) => Has(av, "extensions")

\* C11: modify changes no field of the document other than forwardPorts,
\* customizations.vscode.extensions and features, and build changes no field
\* of the template's base configuration other than those three and name:
\* every other field, recognised or not, is in the result with its exact
\* value, and the result has no further field.
C11_OtherFieldsPassThrough ==
  /\ Returned("applyModifications") =>
       /\ SameOutside(Last.base, Last.result,
                      {"forwardPorts", "customizations", "features"})
       /\ CustomizationsKept(Last.base, Last.result)
  /\ Returned("generateConfig") =>
       /\ SameOutside(Last.base, Last.result,
                      {"forwardPorts", "customizations", "features", "name"})
       /\ CustomizationsKept(Last.base, Last.result)

\* C11's case: a modify that adds ports, extensions and a feature to a
\* document with a field the engine does not know (mounts) and a sibling of
\* vscode under customizations
C11_Witness ==
  /\ Returned("applyModifications")
  /\ Last.base = HandWrittenDocument
  /\ Last.call.analysis.originalPrompt = "TypeScript React docker"
  /\ Last.result.mounts = HandWrittenDocument.mounts
  /\ Last.result.customizations.codespaces = EmptyObject
  /\ Len(Last.result.customizations.vscode.extensions) = 4
  /\ Has(Last.result, "features")

\* steps 2-4 of build (generateConfig lines 235-292) run on a document
MergeSteps(config, analysis) ==
  BuildFeatures(MergeExtensions(MergePorts(config, analysis), analysis),
                analysis)

\* C12: for every document D and every feature set F, applyModifications(D, F)
\* yields the same document as generateConfig's port merge, extension merge
\* and features-block merge run on a copy of D, including whether the result
\* has a features block.
C12_ModifyIsBuildSteps ==
  Returned("applyModifications") =>
    Last.result = MergeSteps(Last.base, Last.call.analysis)

(***************************************************************************)
(* The workspace: claims C13-C16 and C20, checked under SpecWorkspace.     *)
(***************************************************************************)
\* the step in which the client begins the call at the head of pending
Begins(opName) ==
  /\ pending # <<>>
  /\ Head(pending).op = opName
  /\ pending' = Tail(pending)

\* the step settles the call at the head of pending at once with an error,
\* and the file is afterwards what it was before
FailsAtOnce(message) ==
  /\ done' = Append(done, [call |-> Head(pending), error |-> message])
  /\ inflight' = inflight
  /\ disk' = disk

\* whether a call made so far was a call of the operation that failed
Failed(record, opName) == record.call.op = opName /\ Has(record, "error")

\* whether a call made so far was a call of the operation that returned
Succeeded(record, opName) == record.call.op = opName /\ Has(record, "result")

\* C13: modifyConfiguration on a workspace without a persisted
\* devcontainer.json fails with 'No existing devcontainer.json found' and
\* creates no document: the workspace has none after the call either.
C13_ModifyWithoutDocumentFails ==
  [][(Begins("modifyConfiguration") /\ disk = NoFile)
       => (FailsAtOnce("No existing devcontainer.json found") /\ disk' = NoFile)]_vars

\* C13's case: a modify call was made on the empty workspace
C13_Witness ==
  /\ Len(done) = 1
  /\ Failed(done[1], "modifyConfiguration")
  /\ done[1].error = "No existing devcontainer.json found"
  /\ disk = NoFile

\* the names of the catalog's templates
CatalogNames == {templates[i].name : i \in 1..Len(templates)}

\* C14 as stated: generateFromPrompt called with a baseTemplate that names no
\* catalog template fails with "Template '<name>' not found" and leaves the
\* persisted document, present or absent, as it was.
C14_UnknownBaseTemplateFails ==
  [][(/\ Begins("generateFromPrompt")
      /\ Head(pending).baseTemplate.given
      /\ Head(pending).baseTemplate.value \notin CatalogNames)
       => FailsAtOnce("Template '" \o Head(pending).baseTemplate.value
                        \o "' not found")]_vars

\* C14 amended: generateFromPrompt called with a non-empty baseTemplate that
\* names no catalog template fails with "Template '<name>' not found" and
\* leaves the persisted document, present or absent, as it was; an empty
\* string as baseTemplate is treated as no baseTemplate: the call does not
\* fail and goes on to write the configuration of the template
\* findBestMatch selects.
C14_NamedUnknownBaseTemplateFails ==
  [][Begins("generateFromPrompt") =>
       LET base == Head(pending).baseTemplate
       IN  /\ (base.given /\ base.value # "" /\ base.value \notin CatalogNames)
                => FailsAtOnce("Template '" \o base.value \o "' not found")
           /\ (base.given /\ base.value = "")
                => /\ done' = done
                   /\ \E id \in DOMAIN inflight' \ DOMAIN inflight :
                        inflight'[id].template =
                          findBestMatch(templates,
                                        inflight'[id].analysis.languages,
                                        inflight'[id].analysis.frameworks)]_vars

\* C14's case: the call with an unknown name failed on a workspace that has
\* a document, which is still there
C14_Witness ==
  /\ Len(done) = 1
  /\ Failed(done[1], "generateFromPrompt")
  /\ done[1].call.baseTemplate = Given("non-existent")
  /\ done[1].error = "Template 'non-existent' not found"
  /\ disk = JsonFile(PortsDocument)

\* the step in which the call in flight with the id goes on
Continues(id) ==
  id \notin DOMAIN inflight' \/ inflight'[id] # inflight[id]

\* C15: when modifyConfiguration reads a persisted document that does not
\* parse, the parse error is raised to the caller, nothing is repaired and
\* nothing is written: the file is afterwards what it was before.
C15_MalformedDocumentIsRaised ==
  [][\A id \in DOMAIN inflight :
       (/\ inflight[id].call.op = "modifyConfiguration"
        /\ inflight[id].pc = "readJson"
        /\ disk = MalformedFile
        /\ Continues(id))
         => /\ done' = Append(done,
                 [call |-> inflight[id].call,
                  error |-> "SyntaxError: Unexpected token"])
            /\ id \notin DOMAIN inflight'
            /\ disk' = MalformedFile]_vars

\* C15's case: a modify call on a workspace whose document does not parse
\* has ended with the parse error
C15_Witness ==
  /\ Len(done) = 1
  /\ Failed(done[1], "modifyConfiguration")
  /\ done[1].error = "SyntaxError: Unexpected token"
  /\ disk = MalformedFile

\* what a feature set adds is all in a document
HasAdditions(doc, f) ==
  /\ Elems(f.ports) \subseteq ForwardedPorts(doc)
  /\ Elems(f.extensions) \subseteq EditorExtensions(doc)
  /\ RequestedFeatures(f) \subseteq FeatureKeys(doc)

\* a document holds what another held and what a feature set adds, and no
\* other port, extension or feature
IsMergeOf(doc, before, f) ==
  /\ ForwardedPorts(doc) = ForwardedPorts(before) \cup Elems(f.ports)
  /\ EditorExtensions(doc) = EditorExtensions(before) \cup Elems(f.extensions)
  /\ FeatureKeys(doc) = FeatureKeys(before) \cup RequestedFeatures(f)

\* a run of exactly two modifyConfiguration calls that both returned
TwoModifiesDone ==
  /\ pending = <<>>
  /\ inflight = NoCalls
  /\ Len(done) = 2
  /\ Succeeded(done[1], "modifyConfiguration")
  /\ Succeeded(done[2], "modifyConfiguration")

\* the second call to write read the document before the first wrote it
ReadBeforeEitherWrote ==
  done[2].existingConfig # done[1].result.content

\* C16: the core does not serialise two modifyConfiguration calls on one
\* workspace. When both read the persisted document before either writes,
\* the final document is the second writer's merge of the original document
\* alone: whatever only the first call added is not in it. When the second
\* call reads what the first wrote, as it does when the caller runs them one
\* after the other, the final document contains the additions of both.
C16_OverlappingModifiesLoseAnUpdate ==
  TwoModifiesDone =>
    LET first == done[1]
        second == done[2]
    IN  /\ disk = JsonFile(second.result.content)
        /\ IF ReadBeforeEitherWrote
           THEN /\ second.existingConfig = first.existingConfig
                /\ IsMergeOf(disk.value, first.existingConfig,
                             second.result.analysis)
           ELSE /\ HasAdditions(disk.value, first.result.analysis)
                /\ HasAdditions(disk.value, second.result.analysis)

\* C16's case: 'port 8080' and 'postgres docker' both read [3000]; the
\* second to write leaves a document without port 8080
C16_Witness ==
  /\ TwoModifiesDone
  /\ ReadBeforeEitherWrote
  /\ done[1].call.modifications = "port 8080"
  /\ done[2].call.modifications = "postgres docker"
  /\ 8080 \in ForwardedPorts(done[1].result.content)
  /\ 8080 \notin ForwardedPorts(disk.value)
  /\ "ghcr.io/devcontainers/features/postgres:1" \in FeatureKeys(disk.value)

\* the calls of generateFromPrompt that returned
Generated == {i \in 1..Len(done) : Succeeded(done[i], "generateFromPrompt")}

\* the configuration built from the catalog's template with a name for the
\* feature set of a prompt
BuiltFrom(name, prompt) ==
  generateConfig(FindByName(SeedTemplates, name), analyzePrompt(prompt))

\* C20 as stated: a generateFromPrompt that is given a baseTemplate naming a
\* catalog template builds from exactly that template and returns its name
\* as result.template, whatever the prompt yields; findBestMatch decides the
\* template only when no baseTemplate is given.
C20_BaseTemplateOverridesSelection ==
  \A i \in Generated :
    LET c == done[i].call
        r == done[i].result
    IN  IF c.baseTemplate.given
        THEN /\ r.template = c.baseTemplate.value
             /\ r.content = BuiltFrom(c.baseTemplate.value, c.prompt)
        ELSE r.template =
               findBestMatch(SeedTemplates, r.analysis.languages,
                             r.analysis.frameworks).name

\* C20 amended: a generateFromPrompt that is given a non-empty baseTemplate
\* naming a catalog template builds from exactly that template and returns
\* its name as result.template, whatever the prompt yields; findBestMatch
\* decides the template only when baseTemplate is left out or is the empty
\* string.
C20_NamedBaseTemplateOverridesSelection ==
  \A i \in Generated :
    LET c == done[i].call
        r == done[i].result
    IN  IF c.baseTemplate.given /\ c.baseTemplate.value # ""
        THEN /\ r.template = c.baseTemplate.value
             /\ r.content = BuiltFrom(c.baseTemplate.value, c.prompt)
        ELSE /\ r.template =
                  findBestMatch(SeedTemplates, r.analysis.languages,
                                r.analysis.frameworks).name
             /\ r.content = BuiltFrom(r.template, c.prompt)

\* C20's case: the prompt alone selects python, the call names rust
C20_Witness ==
  /\ Len(done) = 1
  /\ Succeeded(done[1], "generateFromPrompt")
  /\ done[1].call.prompt = "python django"
  /\ done[1].call.baseTemplate = Given("rust")
  /\ findBestMatch(templates, done[1].result.analysis.languages,
                   done[1].result.analysis.frameworks).name = "python"
  /\ done[1].result.template = "rust"
  /\ done[1].result.content.image = SeedConfig("rust").image
  /\ disk = JsonFile(done[1].result.content)

(***************************************************************************)
(* Repeated analyses: claim C17, checked under SpecRepeat.                 *)
(***************************************************************************)
\* whether a word occurs anywhere in a text, inside other words too
Occurs(word, text) ==
  \E i \in 1..(Len(text) - Len(word) + 1) :
    SubSeq(text, i, i + Len(word) - 1) = word

\* every keyword of the four tables and of the os check
Keywords ==
  UNION {UNION {table[i].alternatives : i \in 1..Len(table)} :
           table \in {languagePatterns, frameworkPatterns, databasePatterns,
                      toolPatterns}}
    \cup {"alpine", "debian"}

\* a text that holds no keyword, not even within a word, and no digit
NothingToFind(text) ==
  /\ \A word \in Keywords : ~Occurs(word, toLowerCase(text))
  /\ \A i \in 1..Len(text) : CharAt(text, i) \notin Digits

\* a result with every field of PromptAnalysis
IsFeatureSet(r, prompt) ==
  /\ DOMAIN r = {"languages", "frameworks", "tools", "databases", "os",
                 "ports", "extensions", "originalPrompt"}
  /\ r.os \in {"ubuntu", "alpine", "debian"}
  /\ r.originalPrompt = prompt
  /\ \A k \in {"languages", "frameworks", "tools", "databases", "ports",
               "extensions"} : NoDuplicates(r[k])

C18_CatalogIsReadOnly ==
  /\ templates = SeedTemplates
  /\ \A i, j \in Catalog : templates[i].name = templates[j].name => i = j
  /\ Cardinality({i \in Catalog : templates[i].name = "universal"}) = 1

\* C18's case: a generateFromPrompt that built a configuration differing
\* from its template's, followed by a getAllTemplates
C18_Witness ==
  /\ Len(done) = 2
  /\ Succeeded(done[1], "generateFromPrompt")
  /\ done[1].result.template = "rust"
  /\ done[1].result.content # SeedConfig("rust")
  /\ done[2].call.op = "getAllTemplates"
  /\ done[2].result = SeedTemplates

\* the templates, in catalog order, that satisfy every predicate whose key
\* is among the keys taken as supplied
Satisfying(filter, supplied) ==
  SelectSeq(templates,
    LAMBDA t :
      /\ "category" \in supplied => t.category = filter.category
      /\ "language" \in supplied => filter.language \in Elems(t.languages)
      /\ "framework" \in supplied => filter.framework \in Elems(t.frameworks))

\* C19 as stated: getTemplates(filter) returns, in catalog order, exactly the
\* templates that satisfy every predicate the filter supplies; none when
\* nothing matches, and every template when the filter is absent or supplies
\* no predicate.
C19_ListIsConjunctionOfSupplied ==
  Returned("getTemplates") =>
    IF ~Last.call.filter.given THEN Last.result = templates
    ELSE Last.result
           = Satisfying(Last.call.filter.value, DOMAIN Last.call.filter.value)

\* C19 amended: getTemplates(filter) returns, in catalog order, exactly the
\* templates that satisfy every predicate the filter supplies with a
\* non-empty string; a key given as the empty string counts as not
\* supplied. None is returned when nothing matches, and every template when
\* the filter is absent or supplies no non-empty predicate.
C19_ListIsConjunctionOfNonEmpty ==
  Returned("getTemplates") =>
    IF ~Last.call.filter.given THEN Last.result = templates
    ELSE LET filter == Last.call.filter.value
         IN  Last.result
               = Satisfying(filter, {k \in DOMAIN filter : filter[k] # ""})

\* C19's case: two predicates that each match several templates and
\* together match one
C19_Witness ==
  /\ Returned("getTemplates")
  /\ Last.call.filter = Given([category |-> "frontend", language |-> "javascript"])
  /\ Len(getTemplates(templates, Given([language |-> "javascript"]))) > 1
  /\ Len(Last.result) = 1
  /\ Last.result[1].name = "react"

(***************************************************************************)
(* Modify on its own document: claims C25 and C29, checked under           *)
(* SpecMerge.                                                              *)
(***************************************************************************)
\* C25: modify never alters a features entry the existing document already
\* has: every feature identifier present before the call is present
\* afterwards with the options mapping it had before.
C25_ModifyKeepsExistingFeatureEntries ==
  Returned("applyModifications") =>
    \A key \in FeatureKeys(Last.base) :
      /\ key \in FeatureKeys(Last.result)
      /\ Last.result.features[key] = Last.base.features[key]

\* C29: modify is idempotent: for every document D and feature set F,
\* applying F to the document that applying F to D produced yields that
\* document again.
C29_ModifyIsIdempotent ==
  Returned("applyModifications") =>
    applyModifications(Last.result, Last.call.analysis) = Last.result

\* C29's case: a modify that rewrote a port list with a repeated value and
\* added a features block
C29_Witness ==
  /\ Returned("applyModifications")
  /\ Last.base = HandWrittenDocument
  /\ Last.call.analysis.originalPrompt = "3005 docker"
  /\ Last.result.forwardPorts = <<3000, 8080, 3005>>
  /\ FeatureKeys(Last.result)
       = {"ghcr.io/devcontainers/features/docker-in-docker:2"}

(***************************************************************************)
(* Calls run one at a time: claims C28 and C30, checked under SpecAwaited. *)
(***************************************************************************)
\* the calls made so far that returned a result
Successes == {i \in 1..Len(done) : Has(done[i], "result")}

\* the calls before call i that returned a result
SuccessesBefore(i) == {j \in Successes : j < i}

\* the greatest of a non-empty set of call numbers
Latest(S) == CHOOSE i \in S : \A j \in S : j <= i

\* the calls of modifyConfiguration that returned
Modified == {i \in 1..Len(done) : Succeeded(done[i], "modifyConfiguration")}

\* C28: after any sequence of generateFromPrompt and modifyConfiguration
\* calls run one at a time, the persisted document is the content returned
\* by the most recent successful call. A generateFromPrompt result does not
\* depend on what was persisted before it (the same call returns the same
\* content whatever the workspace held), and a modifyConfiguration result is
\* the merge of the document persisted immediately before it.
C28_PersistedIsLastReturned ==
  /\ Successes # {} => disk = JsonFile(done[Latest(Successes)].result.content)
  /\ \A i \in Generated, j \in Generated :
       done[i].call = done[j].call => done[i].result = done[j].result
  /\ \A i \in Modified :
       /\ IF SuccessesBefore(i) = {}
          THEN done[i].existingConfig \in InitialDocuments
          ELSE done[i].existingConfig
                 = done[Latest(SuccessesBefore(i))].result.content
       /\ IsMergeOf(done[i].result.content, done[i].existingConfig,
                    done[i].result.analysis)

\* C28's case: the same generate before and after a modify that changed
\* the document; the second generate replaces the modified document
C28_Witness ==
  /\ Len(done) = 3
  /\ pending = <<>>
  /\ Succeeded(done[1], "generateFromPrompt")
  /\ Succeeded(done[2], "modifyConfiguration")
  /\ Succeeded(done[3], "generateFromPrompt")
  /\ done[1].call = done[3].call
  /\ done[2].call.modifications = "port 8080"
  /\ done[2].existingConfig = done[1].result.content
  /\ done[2].result.content # done[1].result.content
  /\ disk = JsonFile(done[3].result.content)
  /\ 8080 \notin ForwardedPorts(disk.value)

\* the ports the texts of the calls made so far name
PortsNamed ==
  UNION {Elems(analyzePrompt(done[i].call.modifications).ports) :
           i \in 1..Len(done)}

\* C30: modify only ever adds. Each modifyConfiguration call's resulting
\* forwardPorts, extension list and features key set contain everything the
\* document had before that call; so after a sequence of modifyConfiguration
\* calls on a workspace that holds a document, the persisted document still
\* contains every port of the initial document and every port extracted
\* from any modification text of the sequence.
C30_ModifyOnlyAdds ==
  /\ \A i \in Modified :
       /\ ForwardedPorts(done[i].existingConfig)
            \subseteq ForwardedPorts(done[i].result.content)
       /\ EditorExtensions(done[i].existingConfig)
            \subseteq EditorExtensions(done[i].result.content)
       /\ FeatureKeys(done[i].existingConfig)
            \subseteq FeatureKeys(done[i].result.content)
  /\ (/\ done # <<>>
      /\ \A i \in 1..Len(done) : done[i].call.op = "modifyConfiguration"
      /\ inflight = NoCalls
      /\ disk.kind = "json")
       => /\ Modified = 1..Len(done)
          /\ ForwardedPorts(done[1].existingConfig) \subseteq ForwardedPorts(disk.value)
          /\ PortsNamed \subseteq ForwardedPorts(disk.value)

\* C30's case: three modifications of [3000], two of them naming a port
C30_Witness ==
  /\ Len(done) = 3
  /\ pending = <<>>
  /\ Modified = {1, 2, 3}
  /\ done[1].call.modifications = "port 8080"
  /\ done[2].call.modifications = "postgres docker"
  /\ done[3].call.modifications = "port 9000 git"
  /\ done[1].existingConfig = PortsDocument
  /\ disk.value.forwardPorts = <<3000, 8080, 9000>>
  /\ FeatureKeys(disk.value)
       = {"ghcr.io/devcontainers/features/postgres:1",
          "ghcr.io/devcontainers/features/docker-in-docker:2",
          "ghcr.io/devcontainers/features/git:1"}

(***************************************************************************)
(* Commands: claim C27, checked under SpecCommand.                         *)
(***************************************************************************)
\* the command of call id
Command(id) == inflight[id].exec

\* the position of the first event of a type among a command's events, or
\* one past the last when there is none
FirstOf(events, type) ==
  IF \E i \in 1..Len(events) : events[i].type = type
  THEN CHOOSE i \in 1..Len(events) :
         /\ events[i].type = type
         /\ \A j \in 1..(i - 1) : events[j].type # type
  ELSE Len(events) + 1

\* what the promise is to be settled with when an event comes first
OutcomeOf(exec, event) ==
  CASE event.type = "close" ->
         [state |-> "resolved",
          value |-> [exitCode |-> IF event.status.kind = "exit"
                                  THEN event.status.code ELSE 0,
                     stdout |-> Trim(exec.stdout),
                     stderr |-> Trim(exec.stderr)]]
    [] event.type = "error" ->
         [state |-> "rejected",
          message |-> "Failed to execute npx: " \o event.message]
    [] event.type = "timeout" ->
         [state |-> "rejected",
          message |-> "Command timed out after "
                        \o NumberToString(exec.timeout) \o "ms"]

\* C27: the promise of executeCommand settles exactly once, with the outcome
\* of whichever of close, error and timeout is delivered first, under every
\* order of these events: it is pending until the first event and keeps
\* that event's outcome whatever follows. On timeout the child is sent
\* SIGTERM (once, and only then) and, when the timeout comes first, the
\* promise rejects with 'Command timed out after <t>ms' and a later close
\* does not resolve it. When the child closes before the timeout the timer
\* is cancelled: no timeout and no SIGTERM follow the close.
C27_SettlesOnceWithFirstEvent ==
  /\ \A id \in DOMAIN inflight :
       LET exec == Command(id)
           events == exec.events
           close == FirstOf(events, "close")
           timeout == FirstOf(events, "timeout")
       IN  /\ (events = <<>>) = (exec.promise.state = "pending")
           /\ events # <<>> => exec.promise = OutcomeOf(exec, events[1])
           /\ exec.killed = IF timeout <= Len(events) THEN <<"SIGTERM">> ELSE <<>>
           /\ (timeout <= Len(events)) = (exec.timer = "fired")
           /\ (close <= Len(events) /\ timeout > Len(events))
                => (exec.timer = "cleared" /\ exec.killed = <<>>)
           /\ (close <= Len(events) /\ timeout <= Len(events)) => timeout < close
  /\ \A i \in 1..Len(done) :
       /\ done[i].id \in DOMAIN inflight
       /\ done[i].outcome = Command(done[i].id).promise

\* C27's case: the timeout came first and the child, sent SIGTERM, closed
\* afterwards; the caller got the rejection and the promise still holds it
C27_Witness ==
  \E id \in DOMAIN inflight :
    /\ Len(Command(id).events) = 2
    /\ Command(id).events[1].type = "timeout"
    /\ Command(id).events[2] = [type |-> "close", status |-> Signalled("SIGTERM")]
    /\ Command(id).promise = Rejected("Command timed out after 30000ms")
    /\ Command(id).killed = <<"SIGTERM">>
    /\ \E i \in 1..Len(done) :
         done[i].id = id /\ done[i].outcome.state = "rejected"

(***************************************************************************)
(* The container manager: claims C22, C24 and C26, checked under           *)
(* SpecManager.                                                            *)
(***************************************************************************)
\* the calls of an operation made so far that have ended
Ended(opName) == {i \in 1..Len(done) : done[i].call.op = opName}

C24_StatusIsConsistent ==
  \A i \in Ended("getContainerStatus") :
    /\ Has(done[i], "result")
    /\ done[i].result.isRunning => done[i].result.configExists
    /\ disk = NoFile =>
         /\ done[i].result.configExists = FALSE
         /\ done[i].result.isRunning = FALSE
         /\ ~Has(done[i].result, "configPath")
         /\ ~Has(done[i].result, "containerName")
    /\ disk = MalformedFile =>
         /\ done[i].result.configExists = TRUE
         /\ Has(done[i].result, "configPath")
         /\ done[i].result.configPath = configPath
         /\ done[i].result.isRunning = FALSE

\* C24's case: the status of a workspace whose configuration is not valid
\* JSON
C24_Witness ==
  /\ disk = MalformedFile
  /\ Len(done) = 1
  /\ done[1].call.op = "getContainerStatus"
  /\ done[1].result
       = [configExists |-> TRUE, isRunning |-> FALSE, configPath |-> configPath]

\* C26: buildContainer and startContainer report success = true only if the
\* spawned CLI process terminated normally with exit code 0; a process that
\* ended without an exit code, terminated by a signal, is never reported as
\* a success.
C26_SuccessOnlyOnExitCodeZero ==
  \A i \in Ended("buildContainer") \cup Ended("startContainer") :
    done[i].result.success =>
      /\ Has(done[i], "exec")
      /\ done[i].exec.events # <<>>
      /\ done[i].exec.events[1] = [type |-> "close", status |-> Exited(0)]

(***************************************************************************)
(* testContainer: claim C23, checked under SpecTestContainer.              *)
(***************************************************************************)
\* the names of the test cases of a call, in the order claimed: the three
\* default tests, then the custom commands as given
TestNames(c) ==
  <<"Configuration exists", "Container builds successfully",
    "Container can start">>
    \o [k \in 1..Len(CustomCommands(c)) |->
          "Custom test " \o NumberToString(k) \o ": " \o CustomCommands(c)[k]]

\* the number of entries of a list that succeeded
Passed(tests) == Cardinality({k \in 1..Len(tests) : tests[k].success})

\* C23: testContainer runs its three default checks in the order
\* 'Configuration exists', 'Container builds successfully', 'Container can
\* start' and then every custom command in the order given. A failed check
\* is recorded with its error and never prevents the later checks from
\* running: while the call runs its entries are the first of that order, and
\* its result has 3 + (number of custom commands) entries, success true
\* exactly when every entry succeeded, and the summary '<passed>/<total>
\* tests passed'.
C23_AllChecksRunInOrder ==
  /\ \A id \in DOMAIN inflight :
       LET tests == inflight[id].tests
       IN  /\ Len(tests) <= Len(TestNames(inflight[id].call))
           /\ \A k \in 1..Len(tests) :
                tests[k].name = TestNames(inflight[id].call)[k]
  /\ \A i \in Ended("testContainer") :
       LET r == done[i].result
           names == TestNames(done[i].call)
       IN  /\ Len(r.tests) = 3 + Len(CustomCommands(done[i].call))
           /\ \A k \in 1..Len(r.tests) :
                /\ r.tests[k].name = names[k]
                /\ ~r.tests[k].success => Has(r.tests[k], "error")
           /\ r.success = (\A k \in 1..Len(r.tests) : r.tests[k].success)
           /\ r.summary = NumberToString(Passed(r.tests)) \o "/"
                            \o NumberToString(3 + Len(CustomCommands(done[i].call)))
                            \o " tests passed"

\* C23's case: the build fails for want of the CLI, the container starts,
\* the first custom command passes and the second times out
C23_Witness ==
  /\ Len(done) = 1
  /\ done[1].call.customTestCommands = Given(<<"echo test", "pwd">>)
  /\ disk = JsonFile(PortsDocument)
  /\ LET r == done[1].result
     IN  /\ r.tests[1].success
         /\ ~r.tests[2].success
         /\ Occurs("DevContainer CLI not found", r.tests[2].error)
         /\ r.tests[3].success
         /\ r.tests[4] = [name |-> "Custom test 1: echo test",
                          success |-> TRUE, output |-> ""]
         /\ r.tests[5] = [name |-> "Custom test 2: pwd", success |-> FALSE,
                          output |-> "",
                          error |-> "Command timed out after 30000ms"]
         /\ r.summary = "3/5 tests passed"
         /\ ~r.success

(***************************************************************************)
(* The server: claim C21, checked under SpecServer.                        *)
(***************************************************************************)
\* a value of the form {content: [{type: 'text', text}]} with a string text
IsToolResponse(r) ==
  /\ DOMAIN r = {"content"}
  /\ Len(r.content) = 1
  /\ DOMAIN r.content[1] = {"type", "text"}
  /\ r.content[1].type = "text"
  /\ r.content[1].text \in STRING

\* whether a request lacks the required argument of its tool: prompt for
\* generate_devcontainer, modifications for modify_devcontainer
LacksRequired(request) ==
  LET args == IF request.arguments.given THEN request.arguments.value
              ELSE EmptyObject
  IN  \/ /\ request.name = "generate_devcontainer"
         /\ ("prompt" \notin DOMAIN args \/ args.prompt = "")
      \/ /\ request.name = "modify_devcontainer"
         /\ ("modifications" \notin DOMAIN args \/ args.modifications = "")

\* C21: no exception reaches the protocol layer from a tool call. Every
\* CallTool request, including one for an unknown tool, one missing its
\* required argument, and one in which the engine or the container manager
\* raises an error, is answered with a response of the form {content:
\* [{type: 'text', text}]}; and the step that rejects a request for a missing
\* required argument writes no document and leaves no call in flight that
\* could write one.
C21_EveryRequestGetsATextResponse ==
  /\ [](\A i \in 1..Len(done) :
          /\ IsToolResponse(done[i].response)
          /\ LacksRequired(done[i].call) =>
               done[i].response.content[1].text
                 \in {"Error executing generate_devcontainer: Prompt is required",
                      "Error executing modify_devcontainer: Modifications description is required"})
  /\ [][(Begins("CallTool") /\ LacksRequired(Head(pending)))
          => (/\ disk' = disk
              /\ inflight' = inflight
              /\ Len(done') = Len(done) + 1)]_vars

\* C21's case: an unknown tool, and a modify whose document cannot be
\* parsed, both answered with the error text, on a workspace whose file is
\* still what it was
C21_Witness ==
  /\ Len(done) = 2
  /\ disk = MalformedFile
  /\ done[1].call.name = "delete_devcontainer"
  /\ done[1].response
       = ToolResponse("Error executing delete_devcontainer: Unknown tool: delete_devcontainer")
  /\ done[2].call.name = "modify_devcontainer"
  /\ done[2].response
       = ToolResponse("Error executing modify_devcontainer: SyntaxError: Unexpected token")

====
